---- MODULE Spec2Model ----
(***************************************************************************)
(* Model of the sniper pipeline of four-meme-sniper-bot:                   *)
(*   FourMemeSniperBot (core/src/sniper/FourMemeSniperBot.ts) and          *)
(*   SniperBot         (core/src/sniper/SniperBot.ts),                     *)
(* with the part of BondingCurveAnalyzer the bonding-curve poll runs, and  *)
(* GasOptimizer's optimal gas price (core/src/utils/GasOptimizer.ts).      *)
(*                                                                         *)
(* JavaScript numbers are modelled as scaled integers:                     *)
(*   prices, expectedProfit, maxPositionSize, balance : 1e-3  (milli)      *)
(*   slippage                                        : 1e-6  (ppm)         *)
(*   riskScore, priceImpact                          : 1e-4  (bp)          *)
(*   bondingCurveProgress                            : 1e-2  (percent)     *)
(*   amount (= maxPositionSize x (1 - riskScore))    : 1e-7                *)
(*   liquidity, gas price (wei), gas cost (wei)      : units               *)
(* NaN is a sentinel; every comparison with it is FALSE, as in JavaScript. *)
(*                                                                         *)
(* The event loop is modelled by one action per continuation: the code     *)
(* between two awaits runs atomically. Every collaborator call is an await *)
(* whose outcome (value, throw, never settling) is chosen by the           *)
(* environment.                                                            *)
(***************************************************************************)
EXTENDS Integers, Sequences, FiniteSets, TLC

\* ------------------------------------------------------------------ bounds
MaxSnipes == 2
MaxStarts == 2
MaxLaunches == 1
MaxProfitUpdates == 1

\* ------------------------------------------------------- program constants
NaN == -999999999
AvailableBalance == 1000
RiskLimit == 8000
SlippageCap == 50000
SniperTradeAmount == 1000
AnalyzerTradeAmount == 1
GasLimitEstimate == 150000

Tokens == {"0xA", "0xB"}
Absent == [absent |-> TRUE]

\* ----------------------------------------------------------------- helpers
Min(a, b) == IF a <= b THEN a ELSE b
Max(a, b) == IF a >= b THEN a ELSE b

\* JavaScript a < b and a > b on numbers: FALSE when an operand is NaN
Less(a, b) == a # NaN /\ b # NaN /\ a < b
Greater(a, b) == a # NaN /\ b # NaN /\ a > b

\* ----------------------------------------------------------- configuration
\* loadSniperConfig: the defaults, and the value MAX_POSITION_SIZE is set to
DefaultConfig(maxPos) ==
  [ maxSlippage |-> 50000, maxGasPrice |-> 20, minLiquidity |-> 10000,
    maxPositionSize |-> maxPos, profitThreshold |-> 10,
    stopLossPercentage |-> 10, takeProfitPercentage |-> 20,
    bondingCurveThreshold |-> 80, fairLaunchDelay |-> 1000 ]

MaxPositionSizes == {50, 100}

VARIABLES
  bot,              \* the class under analysis: "FM" FourMemeSniperBot, "SB" SniperBot
  sniperConfig,     \* this.sniperConfig
  isRunning,        \* this.isRunning
  intervals,        \* FM: number of times start() scheduled the polls and the detector handler
  monitoredTokens,  \* FM: this.monitoredTokens
  launching,        \* FM: handleTokenLaunch calls in flight, per token
  activeSnipes,     \* FM: this.activeSnipes, in insertion order
  activeTrades,     \* SB: this.activeTrades, in insertion order
  exec,             \* frame of executeSnipeTransaction / executeTrade, per trade
  emitted,          \* notifications emitted with the trade as payload, per trade
  snipeOpp,         \* the opportunity each trade was created from
  input,            \* PipeSpec, PureSpec: the input under consideration
  output,           \* PureSpec: what the functions returned for the input
  totalProfit,      \* this.totalProfit
  profitUpdated,    \* payloads of the profitUpdated notifications emitted
  ticks             \* TickSpec: the bonding-curve poll callbacks in flight

vars == << bot, sniperConfig, isRunning, intervals, monitoredTokens, launching,
           activeSnipes, activeTrades, exec, emitted, snipeOpp, input, output,
           totalProfit, profitUpdated, ticks >>

NoInput == [kind |-> "none"]
NoOutput == [fm |-> "none", sb |-> "none", fmSize |-> << >>, sbSize |-> << >>,
             snipe |-> << >>, trade |-> << >>, fmWarnings |-> << >>, sbWarnings |-> << >>]

\* The registry of the class under analysis
Registry == IF bot = "FM" THEN activeSnipes ELSE activeTrades
TradeIds == 1..Len(Registry)

\* --------------------------------------------------------------- Risk Gate
\* mutants of the gate: the liquidity rule left out; the risk rule with >=
ValidateSniperOpportunity_NoLiquidityRule(opportunity, cfg) ==
  IF Greater(opportunity.slippage, cfg.maxSlippage) THEN FALSE
  ELSE IF Less(opportunity.expectedProfit, cfg.profitThreshold) THEN FALSE
  ELSE IF Greater(opportunity.riskScore, RiskLimit) THEN FALSE
  ELSE IF Greater(opportunity.bondingCurveProgress, cfg.bondingCurveThreshold) THEN FALSE
  ELSE TRUE

ValidateOpportunity_RiskBoundary(opportunity, cfg) ==
  IF Less(opportunity.liquidity, cfg.minLiquidity) THEN FALSE
  ELSE IF Greater(opportunity.slippage, cfg.maxSlippage) THEN FALSE
  ELSE IF Less(opportunity.expectedProfit, cfg.profitThreshold) THEN FALSE
  ELSE IF ~Less(opportunity.riskScore, RiskLimit) THEN FALSE
  ELSE TRUE

ValidateSniperOpportunity(opportunity, cfg) ==
  IF Less(opportunity.liquidity, cfg.minLiquidity) THEN FALSE
  ELSE IF Greater(opportunity.slippage, cfg.maxSlippage) THEN FALSE
  ELSE IF Less(opportunity.expectedProfit, cfg.profitThreshold) THEN FALSE
  ELSE IF Greater(opportunity.riskScore, RiskLimit) THEN FALSE
  ELSE IF Greater(opportunity.bondingCurveProgress, cfg.bondingCurveThreshold) THEN FALSE
  ELSE TRUE

ValidateOpportunity(opportunity, cfg) ==
  IF Less(opportunity.liquidity, cfg.minLiquidity) THEN FALSE
  ELSE IF Greater(opportunity.slippage, cfg.maxSlippage) THEN FALSE
  ELSE IF Less(opportunity.expectedProfit, cfg.profitThreshold) THEN FALSE
  ELSE IF Greater(opportunity.riskScore, RiskLimit) THEN FALSE
  ELSE TRUE

\* ---------------------------------------------------------- Position Sizer
GetAvailableBalance == AvailableBalance

\* min(maxPosition * (1 - riskScore), availableBalance * 0.1), in 1e-7
\* mutant: the size is not limited by the balance
CalculatePositionSize_IgnoresBalance(opportunity, cfg) ==
  cfg.maxPositionSize * (10000 - opportunity.riskScore)

CalculatePositionSize(opportunity, cfg) ==
  LET riskAdjustedSize == cfg.maxPositionSize * (10000 - opportunity.riskScore)
  IN  Min(riskAdjustedSize, GetAvailableBalance * 1000)

SBCalculatePositionSize(opportunity, cfg) ==
  LET riskAdjustedSize == cfg.maxPositionSize * (10000 - opportunity.riskScore)
  IN  Min(riskAdjustedSize, GetAvailableBalance * 1000)

\* ------------------------------------------------------------ trade records
\* mutant: the stop-loss is computed from the take-profit percentage
CreateSnipe_SwapsPercentages(snipeId, opportunity, positionSize, cfg) ==
  [ id |-> snipeId,
    token |-> opportunity.token,
    entryPrice |-> opportunity.currentPrice,
    amount |-> positionSize,
    stopLoss |-> (opportunity.currentPrice * (100 - cfg.takeProfitPercentage)) \div 100,
    takeProfit |-> (opportunity.currentPrice * (100 + cfg.takeProfitPercentage)) \div 100,
    status |-> "PENDING",
    bondingCurveProgress |-> opportunity.bondingCurveProgress ]

CreateSnipe(snipeId, opportunity, positionSize, cfg) ==
  [ id |-> snipeId,
    token |-> opportunity.token,
    entryPrice |-> opportunity.currentPrice,
    amount |-> positionSize,
    stopLoss |-> (opportunity.currentPrice * (100 - cfg.stopLossPercentage)) \div 100,
    takeProfit |-> (opportunity.currentPrice * (100 + cfg.takeProfitPercentage)) \div 100,
    status |-> "PENDING",
    bondingCurveProgress |-> opportunity.bondingCurveProgress ]

CreateTrade(tradeId, opportunity, positionSize, cfg) ==
  [ id |-> tradeId,
    tokenAddress |-> opportunity.tokenAddress,
    entryPrice |-> opportunity.currentPrice,
    amount |-> positionSize,
    stopLoss |-> (opportunity.currentPrice * (100 - cfg.stopLossPercentage)) \div 100,
    takeProfit |-> (opportunity.currentPrice * (100 + cfg.takeProfitPercentage)) \div 100,
    status |-> "PENDING" ]

\* The frame of a fresh executeSnipeTransaction call: it runs to its first
\* await, the gas-price query.
NewFrame == [ pc |-> "gas", submits |-> 0, receipt |-> "none" ]

\* The address a trade of either class is for
TokenOf(trade) == IF bot = "FM" THEN trade.token ELSE trade.tokenAddress

\* --------------------------------------------------- collaborators' answers
\* Snapshots BondingCurveAnalyzer.getBondingCurveData can return
BondingCurveDatas ==
  [ currentPrice : {0, 1000}, progress : {50, 90}, priceImpact : {100},
    liquidity : {5000, 10000} ]

\* What the collaborators answer during one handleTokenLaunch: no snapshot, a
\* throw inside analyzeSniperOpportunity, or a snapshot with the answers of
\* dexManager.getLiquidity, provider.getFeeData and
\* riskManager.calculateRiskScore
LaunchAnswers ==
  [ kind : {"absent", "throws"}, data : {Absent}, liquidity : {0},
    gasPrice : {0}, riskScore : {0} ]
  \cup
  [ kind : {"data"},
    data : { d \in BondingCurveDatas : d.liquidity = 10000 },
    liquidity : {5000, 10000}, gasPrice : {1},
    riskScore : {-5000, 9000} ]

\* What the collaborators answer while the poll evaluates one token: no
\* snapshot, a throw of provider.getFeeData inside analyzeOpportunity, no token
\* record from FourMemeAPI.getToken, or a snapshot, a gas price and the token
PollAnswers ==
  [ kind : {"absent"}, data : {Absent}, gasPrice : {0} ]
  \cup
  [ kind : {"throws", "noToken"},
    data : { d \in BondingCurveDatas :
               d.currentPrice = 1000 /\ d.liquidity = 10000 /\ d.progress = 50 },
    gasPrice : {0} ]
  \cup
  [ kind : {"data"}, data : BondingCurveDatas, gasPrice : {0, 1} ]

\* ------------------------------------------------ FourMemeSniperBot helpers
\* Math.min(0.05, 1000 / liquidity), in ppm; 1000 / 0 is Infinity
CalculateSlippage(liquidity) ==
  IF liquidity = 0 THEN SlippageCap
  ELSE Min(SlippageCap, (SniperTradeAmount * 1000000) \div liquidity)

EstimateSniperGasCost(gasPrice) == gasPrice * GasLimitEstimate

\* tradeAmount * (targetPrice - currentPrice) / currentPrice, in milli; 0 / 0 is NaN
CalculateExpectedProfit(currentPrice, targetPrice) ==
  IF currentPrice = 0 THEN NaN
  ELSE (SniperTradeAmount * 1000 * (targetPrice - currentPrice)) \div currentPrice

\* BondingCurveAnalyzer.getCurrentPrice(contract) handed a snapshot: the
\* snapshot is a plain record without a getCurrentPrice method, the call inside
\* the try throws and the catch returns 0
GetCurrentPrice(contract) == 0

\* analyzeSniperOpportunity: liquidity is what dexManager.getLiquidity answered,
\* riskScore what riskManager.calculateRiskScore answered
AnalyzeSniperOpportunity(token, bondingCurveData, liquidity, gasPrice, riskScore) ==
  LET currentPrice == GetCurrentPrice(bondingCurveData)
      targetPrice == currentPrice * 2
  IN  [ token |-> token,
        currentPrice |-> currentPrice,
        targetPrice |-> targetPrice,
        bondingCurveProgress |-> bondingCurveData.progress,
        liquidity |-> liquidity,
        slippage |-> CalculateSlippage(liquidity),
        gasCost |-> EstimateSniperGasCost(gasPrice),
        expectedProfit |-> CalculateExpectedProfit(currentPrice, targetPrice),
        riskScore |-> riskScore ]

\* --------------------------------------------- BondingCurveAnalyzer helpers
\* mutant: the slippage is not capped
AnalyzerCalculateSlippage_Uncapped(bondingCurveData) ==
  IF bondingCurveData.liquidity = 0 THEN 1000000
  ELSE (AnalyzerTradeAmount * 1000000) \div bondingCurveData.liquidity

\* Math.min(tradeSize / liquidity, 0.05), in ppm
AnalyzerCalculateSlippage(bondingCurveData) ==
  IF bondingCurveData.liquidity = 0 THEN SlippageCap
  ELSE Min((AnalyzerTradeAmount * 1000000) \div bondingCurveData.liquidity, SlippageCap)

AnalyzerEstimateGasCost(gasPrice) == gasPrice * GasLimitEstimate

AnalyzerCalculateExpectedProfit(currentPrice, targetPrice) ==
  IF currentPrice = 0 THEN NaN
  ELSE (AnalyzerTradeAmount * 1000 * (targetPrice - currentPrice)) \div currentPrice

\* progress*0.3 + max(0,(10000-liquidity)/10000)*0.4 + min(priceImpact,0.1)*0.3,
\* then Math.min(riskScore, 1); in bp
AnalyzerCalculateRiskScore(bondingCurveData) ==
  LET progressRisk == bondingCurveData.progress * 30
      liquidityRisk == (Max(0, 10000 - bondingCurveData.liquidity) * 4) \div 10
      impactRisk == (Min(bondingCurveData.priceImpact, 1000) * 3) \div 10
  IN  Min(progressRisk + liquidityRisk + impactRisk, 10000)

\* analyzeOpportunity; isProfitable is expectedProfit > gasCost * 1.1
AnalyzeOpportunity(bondingCurveData, gasPrice) ==
  LET targetPrice == bondingCurveData.currentPrice * 2
      gasCost == AnalyzerEstimateGasCost(gasPrice)
      expectedProfit ==
        AnalyzerCalculateExpectedProfit(bondingCurveData.currentPrice, targetPrice)
  IN  [ isProfitable |-> expectedProfit # NaN /\ expectedProfit * 10 > gasCost * 11000,
        currentPrice |-> bondingCurveData.currentPrice,
        targetPrice |-> targetPrice,
        progress |-> bondingCurveData.progress,
        liquidity |-> bondingCurveData.liquidity,
        slippage |-> AnalyzerCalculateSlippage(bondingCurveData),
        gasCost |-> gasCost,
        expectedProfit |-> expectedProfit,
        riskScore |-> AnalyzerCalculateRiskScore(bondingCurveData) ]

GetDefaultAnalysis ==
  [ isProfitable |-> FALSE, currentPrice |-> 0, targetPrice |-> 0, progress |-> 0,
    liquidity |-> 0, slippage |-> 0, gasCost |-> 0, expectedProfit |-> 0,
    riskScore |-> 10000 ]

\* The opportunity analyzeBondingCurveOpportunity builds from an analysis
PollOpportunity(token, analysis) ==
  [ token |-> token,
    currentPrice |-> analysis.currentPrice,
    targetPrice |-> analysis.targetPrice,
    bondingCurveProgress |-> analysis.progress,
    liquidity |-> analysis.liquidity,
    slippage |-> analysis.slippage,
    gasCost |-> analysis.gasCost,
    expectedProfit |-> analysis.expectedProfit,
    riskScore |-> analysis.riskScore ]

\* ------------------------------------------------------------- event loop
\* A notification is being delivered: emit() runs the listeners synchronously,
\* so no timer and no continuation runs until they are through.
InListener == \E i \in DOMAIN exec : exec[i].pc \in {"emit", "emitError"}

\* mutant: the halt also marks the trades still awaiting confirmation
StopAll_StopsPending(registry) ==
  [ i \in DOMAIN registry |->
      IF registry[i].status \in {"ACTIVE", "PENDING"}
      THEN [registry[i] EXCEPT !.status = "STOPPED"]
      ELSE registry[i] ]

\* stopAllSnipes / stopAllTrades on a registry
StopAll(registry) ==
  [ i \in DOMAIN registry |->
      IF registry[i].status = "ACTIVE"
      THEN [registry[i] EXCEPT !.status = "STOPPED"]
      ELSE registry[i] ]

FMOnly == UNCHANGED << bot, sniperConfig, activeTrades, output, totalProfit, profitUpdated >>

\* ---------------------------------------------- FourMemeSniperBot: lifecycle
Start ==
  /\ bot = "FM"
  /\ ~InListener
  /\ ~isRunning
  /\ intervals < MaxStarts
  /\ isRunning' = TRUE
  /\ intervals' = intervals + 1
  /\ UNCHANGED << monitoredTokens, launching, activeSnipes, exec, emitted, snipeOpp >>
  /\ UNCHANGED << input, ticks >>
  /\ FMOnly

StopAllSnipes ==
  /\ bot = "FM"
  /\ ~InListener
  /\ activeSnipes' = StopAll(activeSnipes)
  /\ UNCHANGED << isRunning, intervals, monitoredTokens, launching, exec, emitted, snipeOpp >>
  /\ UNCHANGED << input, ticks >>
  /\ FMOnly

Stop ==
  /\ bot = "FM"
  /\ ~InListener
  /\ isRunning
  /\ isRunning' = FALSE
  /\ activeSnipes' = StopAll(activeSnipes)
  /\ UNCHANGED << intervals, monitoredTokens, launching, exec, emitted, snipeOpp >>
  /\ UNCHANGED << input, ticks >>
  /\ FMOnly

\* ------------------------------------------- FourMemeSniperBot: the pipeline
\* executeSnipe up to its await of executeSnipeTransaction: gate, sizing,
\* createSnipe, and the start of the transaction up to the gas-price query
ExecuteSnipe(opportunity) ==
  IF ValidateSniperOpportunity(opportunity, sniperConfig)
  THEN LET positionSize == CalculatePositionSize(opportunity, sniperConfig)
           snipeId == Len(activeSnipes) + 1
       IN  /\ Len(activeSnipes) < MaxSnipes
           /\ activeSnipes' = Append(activeSnipes,
                                CreateSnipe(snipeId, opportunity, positionSize, sniperConfig))
           /\ exec' = Append(exec, NewFrame)
           /\ emitted' = Append(emitted, << >>)
           /\ snipeOpp' = Append(snipeOpp, opportunity)
  ELSE UNCHANGED << activeSnipes, exec, emitted, snipeOpp >>

\* One tick of startFourMemeMonitoring finds a token it does not monitor yet
FourMemeMonitoringTick(token) ==
  /\ bot = "FM"
  /\ intervals > 0
  /\ ~InListener
  /\ token \notin monitoredTokens
  /\ launching[token] < MaxLaunches
  /\ monitoredTokens' = monitoredTokens \cup {token}
  /\ launching' = [launching EXCEPT ![token] = @ + 1]
  /\ UNCHANGED << isRunning, intervals, activeSnipes, exec, emitted, snipeOpp >>
  /\ UNCHANGED << input, ticks >>
  /\ FMOnly

\* The handler startTokenDetection registered runs for a detected token
NewTokenDetected(token, isFourMemeToken) ==
  /\ bot = "FM"
  /\ intervals > 0
  /\ ~InListener
  /\ IF isFourMemeToken
     THEN /\ launching[token] < MaxLaunches
          /\ monitoredTokens' = monitoredTokens \cup {token}
          /\ launching' = [launching EXCEPT ![token] = @ + 1]
     ELSE UNCHANGED << monitoredTokens, launching >>
  /\ UNCHANGED << isRunning, intervals, activeSnipes, exec, emitted, snipeOpp >>
  /\ UNCHANGED << input, ticks >>
  /\ FMOnly

\* handleTokenLaunch for a token analyzeToken handed over
HandleTokenLaunchBody(token, answers) ==
  /\ bot = "FM"
  /\ ~InListener
  /\ launching[token] > 0
  /\ launching' = [launching EXCEPT ![token] = @ - 1]
  /\ IF answers.kind \in {"absent", "throws"}
     THEN UNCHANGED << activeSnipes, exec, emitted, snipeOpp >>
     ELSE LET opportunity ==
                AnalyzeSniperOpportunity(token, answers.data, answers.liquidity,
                                         answers.gasPrice, answers.riskScore)
          IN  IF Greater(opportunity.expectedProfit, sniperConfig.profitThreshold)
              THEN ExecuteSnipe(opportunity)
              ELSE UNCHANGED << activeSnipes, exec, emitted, snipeOpp >>
  /\ UNCHANGED << isRunning, intervals, monitoredTokens >>
  /\ FMOnly

HandleTokenLaunch(token, answers) ==
  HandleTokenLaunchBody(token, answers) /\ UNCHANGED << input, ticks >>

\* mutant: a failed analysis is used as if it had succeeded
BondingCurvePollBody_UsesFailedAnalysis(token, answers) ==
  /\ bot = "FM"
  /\ intervals > 0
  /\ ~InListener
  /\ token \in monitoredTokens
  /\ IF answers.kind = "absent"
     THEN UNCHANGED << activeSnipes, exec, emitted, snipeOpp >>
     ELSE LET analysis == AnalyzeOpportunity(answers.data, answers.gasPrice)
          IN  IF analysis.isProfitable /\ answers.kind # "noToken"
              THEN ExecuteSnipe(PollOpportunity(token, analysis))
              ELSE UNCHANGED << activeSnipes, exec, emitted, snipeOpp >>
  /\ UNCHANGED << isRunning, intervals, monitoredTokens, launching >>
  /\ FMOnly

\* mutant: a token without a snapshot is dropped from monitoring
BondingCurvePollBody_DropsAbsent(token, answers) ==
  /\ bot = "FM"
  /\ intervals > 0
  /\ ~InListener
  /\ token \in monitoredTokens
  /\ IF answers.kind = "absent"
     THEN /\ monitoredTokens' = monitoredTokens \ {token}
          /\ UNCHANGED << activeSnipes, exec, emitted, snipeOpp >>
     ELSE /\ UNCHANGED monitoredTokens
          /\ LET analysis == IF answers.kind = "throws" THEN GetDefaultAnalysis
                              ELSE AnalyzeOpportunity(answers.data, answers.gasPrice)
             IN  IF analysis.isProfitable /\ answers.kind # "noToken"
                 THEN ExecuteSnipe(PollOpportunity(token, analysis))
                 ELSE UNCHANGED << activeSnipes, exec, emitted, snipeOpp >>
  /\ UNCHANGED << isRunning, intervals, launching >>
  /\ FMOnly

\* One tick of startBondingCurveMonitoring reaches a monitored token
BondingCurvePollBody(token, answers) ==
  /\ bot = "FM"
  /\ intervals > 0
  /\ ~InListener
  /\ token \in monitoredTokens
  /\ IF answers.kind = "absent"
     THEN UNCHANGED << activeSnipes, exec, emitted, snipeOpp >>
     ELSE LET analysis == IF answers.kind = "throws" THEN GetDefaultAnalysis
                          ELSE AnalyzeOpportunity(answers.data, answers.gasPrice)
          IN  IF analysis.isProfitable /\ answers.kind # "noToken"
              THEN ExecuteSnipe(PollOpportunity(token, analysis))
              ELSE UNCHANGED << activeSnipes, exec, emitted, snipeOpp >>
  /\ UNCHANGED << isRunning, intervals, monitoredTokens, launching >>
  /\ FMOnly

BondingCurvePoll(token, answers) ==
  BondingCurvePollBody(token, answers) /\ UNCHANGED << input, ticks >>

\* ------------------------------- executeSnipeTransaction / executeTrade steps
\* (the two methods are the same code; the names of the notifications differ)
EventName(kind) ==
  IF bot = "FM"
  THEN [Executed |-> "snipeExecuted", Failed |-> "snipeFailed", Error |-> "snipeError"][kind]
  ELSE [Executed |-> "tradeExecuted", Failed |-> "tradeFailed", Error |-> "tradeError"][kind]

SetStatus(registry, i, status) == [registry EXCEPT ![i].status = status]

SetRegistry(registry) ==
  IF bot = "FM"
  THEN activeSnipes' = registry /\ UNCHANGED activeTrades
  ELSE activeTrades' = registry /\ UNCHANGED activeSnipes

ExecFrame == UNCHANGED << bot, sniperConfig, isRunning, intervals, monitoredTokens,
                          launching, snipeOpp, input, output,
                          totalProfit, profitUpdated, ticks >>

\* the catch block: status STOPPED, then emit snipeError
CatchError(i) ==
  /\ SetRegistry(SetStatus(Registry, i, "STOPPED"))
  /\ emitted' = [emitted EXCEPT ![i] = Append(@, EventName("Error"))]
  /\ exec' = [exec EXCEPT ![i].pc = "emitError"]

\* gasOptimizer.getOptimalGasPrice settles (it catches its own failures)
GasPriceReturns(i) ==
  /\ i \in DOMAIN exec
  /\ ~InListener
  /\ exec[i].pc = "gas"
  /\ exec' = [exec EXCEPT ![i].pc = "protect"]
  /\ UNCHANGED << activeSnipes, activeTrades, emitted >>
  /\ ExecFrame

\* mevProtection.protectTransaction returns; wallet.sendTransaction is called
ProtectReturns(i) ==
  /\ i \in DOMAIN exec
  /\ ~InListener
  /\ exec[i].pc = "protect"
  /\ exec' = [exec EXCEPT ![i].pc = "send", ![i].submits = @ + 1]
  /\ UNCHANGED << activeSnipes, activeTrades, emitted >>
  /\ ExecFrame

\* building the transaction or protectTransaction throws
ProtectThrows(i) ==
  /\ i \in DOMAIN exec
  /\ ~InListener
  /\ exec[i].pc = "protect"
  /\ CatchError(i)
  /\ ExecFrame

\* wallet.sendTransaction returns the broadcast transaction; tx.wait is called
SendReturns(i) ==
  /\ i \in DOMAIN exec
  /\ ~InListener
  /\ exec[i].pc = "send"
  /\ exec' = [exec EXCEPT ![i].pc = "wait"]
  /\ UNCHANGED << activeSnipes, activeTrades, emitted >>
  /\ ExecFrame

\* mutant: a rejected submission is sent again
SendThrows_Retries(i) ==
  /\ i \in DOMAIN exec
  /\ ~InListener
  /\ exec[i].pc = "send"
  /\ exec' = [exec EXCEPT ![i].submits = @ + 1]
  /\ UNCHANGED << activeSnipes, activeTrades, emitted >>
  /\ ExecFrame

\* wallet.sendTransaction rejects: nothing was broadcast
SendThrows(i) ==
  /\ i \in DOMAIN exec
  /\ ~InListener
  /\ exec[i].pc = "send"
  /\ CatchError(i)
  /\ ExecFrame

\* mutant: the receipt's status is not looked at
WaitReturns_IgnoresStatus(i, receipt) ==
  /\ i \in DOMAIN exec
  /\ ~InListener
  /\ exec[i].pc = "wait"
  /\ exec' = [exec EXCEPT ![i].pc = "emit", ![i].receipt = receipt]
  /\ SetRegistry(SetStatus(Registry, i, "ACTIVE"))
  /\ emitted' = [emitted EXCEPT ![i] = Append(@, EventName("Executed"))]
  /\ ExecFrame

\* tx.wait returns a receipt with status 1 ("ok") or another status ("failed")
WaitReturns(i, receipt) ==
  /\ i \in DOMAIN exec
  /\ ~InListener
  /\ exec[i].pc = "wait"
  /\ exec' = [exec EXCEPT ![i].pc = "emit", ![i].receipt = receipt]
  /\ IF receipt = "ok"
     THEN /\ SetRegistry(SetStatus(Registry, i, "ACTIVE"))
          /\ emitted' = [emitted EXCEPT ![i] = Append(@, EventName("Executed"))]
     ELSE /\ SetRegistry(SetStatus(Registry, i, "STOPPED"))
          /\ emitted' = [emitted EXCEPT ![i] = Append(@, EventName("Failed"))]
  /\ ExecFrame

\* tx.wait rejects (revert, replacement, network failure) or yields no receipt
WaitThrows(i) ==
  /\ i \in DOMAIN exec
  /\ ~InListener
  /\ exec[i].pc = "wait"
  /\ CatchError(i)
  /\ ExecFrame

\* the listeners of the notification being delivered return
ListenerReturns(i) ==
  /\ i \in DOMAIN exec
  /\ exec[i].pc \in {"emit", "emitError"}
  /\ exec' = [exec EXCEPT ![i].pc = "done"]
  /\ UNCHANGED << activeSnipes, activeTrades, emitted >>
  /\ ExecFrame

\* a listener throws: out of the try block into the catch block, out of the
\* catch block into the caller's catch, which logs
ListenerThrows(i) ==
  /\ i \in DOMAIN exec
  /\ exec[i].pc \in {"emit", "emitError"}
  /\ IF exec[i].pc = "emit"
     THEN CatchError(i)
     ELSE /\ exec' = [exec EXCEPT ![i].pc = "done"]
          /\ UNCHANGED << activeSnipes, activeTrades, emitted >>
  /\ ExecFrame

\* the awaited collaborator call never settles; nothing bounds the await
CallHangs(i) ==
  /\ i \in DOMAIN exec
  /\ ~InListener
  /\ exec[i].pc \in {"gas", "protect", "send", "wait"}
  /\ exec' = [exec EXCEPT ![i].pc = "hung"]
  /\ UNCHANGED << activeSnipes, activeTrades, emitted >>
  /\ ExecFrame

\* ------------------------------------------------------------------ SniperBot
\* Opportunities a caller hands to handleSniperOpportunity
SniperOpportunities ==
  [ tokenAddress : Tokens, currentPrice : {1000}, targetPrice : {2000},
    liquidity : {5000, 10000}, slippage : {50000, 60000}, gasCost : {0},
    expectedProfit : {5, 10}, riskScore : {-5000, 9000} ]

SBOnly == UNCHANGED << bot, intervals, monitoredTokens, launching, activeSnipes, output,
                       totalProfit, profitUpdated >>

SBStart ==
  /\ bot = "SB"
  /\ ~InListener
  /\ ~isRunning
  /\ isRunning' = TRUE
  /\ UNCHANGED << sniperConfig, activeTrades, exec, emitted, snipeOpp >>
  /\ UNCHANGED << input, ticks >>
  /\ SBOnly

StopAllTrades ==
  /\ bot = "SB"
  /\ ~InListener
  /\ activeTrades' = StopAll(activeTrades)
  /\ UNCHANGED << sniperConfig, isRunning, exec, emitted, snipeOpp >>
  /\ UNCHANGED << input, ticks >>
  /\ SBOnly

SBStop ==
  /\ bot = "SB"
  /\ ~InListener
  /\ isRunning
  /\ isRunning' = FALSE
  /\ activeTrades' = StopAll(activeTrades)
  /\ UNCHANGED << sniperConfig, exec, emitted, snipeOpp >>
  /\ UNCHANGED << input, ticks >>
  /\ SBOnly

\* handleSniperOpportunity up to its await of executeTrade
HandleSniperOpportunityBody(opportunity) ==
  /\ bot = "SB"
  /\ ~InListener
  /\ IF ValidateOpportunity(opportunity, sniperConfig)
     THEN LET positionSize == SBCalculatePositionSize(opportunity, sniperConfig)
              tradeId == Len(activeTrades) + 1
          IN  /\ Len(activeTrades) < MaxSnipes
              /\ activeTrades' = Append(activeTrades,
                                   CreateTrade(tradeId, opportunity, positionSize, sniperConfig))
              /\ exec' = Append(exec, NewFrame)
              /\ emitted' = Append(emitted, << >>)
              /\ snipeOpp' = Append(snipeOpp, opportunity)
     ELSE UNCHANGED << activeTrades, exec, emitted, snipeOpp >>
  /\ UNCHANGED << sniperConfig, isRunning >>
  /\ SBOnly

HandleSniperOpportunity(opportunity) ==
  HandleSniperOpportunityBody(opportunity) /\ UNCHANGED << input, ticks >>

\* mutant: the reduction is also applied to the trades already created
ReducePositionSize_RescalesTrades(factor) ==
  /\ bot = "SB"
  /\ ~InListener
  /\ (sniperConfig.maxPositionSize * factor) % 100 = 0
  /\ sniperConfig' = [sniperConfig EXCEPT !.maxPositionSize = (@ * factor) \div 100]
  /\ activeTrades' = [ i \in DOMAIN activeTrades |->
                         [activeTrades[i] EXCEPT !.amount = (@ * factor) \div 100] ]
  /\ UNCHANGED << isRunning, exec, emitted, snipeOpp >>
  /\ UNCHANGED << input, ticks >>
  /\ SBOnly

\* reducePositionSize(factor), factor in percent; only factors whose product
\* the scaled integers represent exactly
ReducePositionSize(factor) ==
  /\ bot = "SB"
  /\ ~InListener
  /\ (sniperConfig.maxPositionSize * factor) % 100 = 0
  /\ sniperConfig' = [sniperConfig EXCEPT !.maxPositionSize = (@ * factor) \div 100]
  /\ UNCHANGED << isRunning, activeTrades, exec, emitted, snipeOpp >>
  /\ UNCHANGED << input, ticks >>
  /\ SBOnly

\* ------------------------------------------------------------ specification
\* updateTotalProfit(profit), public in both classes: the accumulator grows by
\* profit and profitUpdated is emitted with the new total
Profits == {-500, 1000}

UpdateTotalProfit(profit) ==
  /\ ~InListener
  /\ Len(profitUpdated) < MaxProfitUpdates
  /\ totalProfit' = totalProfit + profit
  /\ profitUpdated' = Append(profitUpdated, totalProfit')
  /\ UNCHANGED << bot, sniperConfig, isRunning, intervals, monitoredTokens, launching,
                  activeSnipes, activeTrades, exec, emitted, snipeOpp, input, output,
                  ticks >>

Init ==
  /\ bot \in {"FM", "SB"}
  /\ sniperConfig \in { DefaultConfig(m) : m \in MaxPositionSizes }
  /\ isRunning = FALSE
  /\ intervals = 0
  /\ monitoredTokens = {}
  /\ launching = [t \in Tokens |-> 0]
  /\ activeSnipes = << >>
  /\ activeTrades = << >>
  /\ exec = << >>
  /\ emitted = << >>
  /\ snipeOpp = << >>
  /\ input = NoInput
  /\ output = NoOutput
  /\ totalProfit = 0
  /\ profitUpdated = << >>
  /\ ticks = << >>

Next ==
  \/ Start
  \/ Stop
  \/ StopAllSnipes
  \/ \E token \in Tokens : FourMemeMonitoringTick(token)
  \/ \E token \in Tokens, isFourMemeToken \in BOOLEAN :
       NewTokenDetected(token, isFourMemeToken)
  \/ \E token \in Tokens, answers \in LaunchAnswers : HandleTokenLaunch(token, answers)
  \/ \E token \in Tokens, answers \in PollAnswers : BondingCurvePoll(token, answers)
  \/ SBStart
  \/ SBStop
  \/ StopAllTrades
  \/ \E opportunity \in SniperOpportunities : HandleSniperOpportunity(opportunity)
  \/ \E factor \in {50} : ReducePositionSize(factor)
  \/ \E profit \in Profits : UpdateTotalProfit(profit)
  \/ \E i \in 1..MaxSnipes : GasPriceReturns(i)
  \/ \E i \in 1..MaxSnipes : ProtectReturns(i)
  \/ \E i \in 1..MaxSnipes : ProtectThrows(i)
  \/ \E i \in 1..MaxSnipes : SendReturns(i)
  \/ \E i \in 1..MaxSnipes : SendThrows(i)
  \/ \E i \in 1..MaxSnipes, receipt \in {"ok", "failed"} : WaitReturns(i, receipt)
  \/ \E i \in 1..MaxSnipes : WaitThrows(i)
  \/ \E i \in 1..MaxSnipes : ListenerReturns(i)
  \/ \E i \in 1..MaxSnipes : ListenerThrows(i)
  \/ \E i \in 1..MaxSnipes : CallHangs(i)

Spec == Init /\ [][Next]_vars

\* Every await of a started transaction is left: the event loop runs the
\* continuation of a settled call, and a call that does not settle hangs
Continue(i) ==
  \/ GasPriceReturns(i) \/ ProtectReturns(i) \/ ProtectThrows(i)
  \/ SendReturns(i) \/ SendThrows(i)
  \/ WaitReturns(i, "ok") \/ WaitReturns(i, "failed") \/ WaitThrows(i)
  \/ ListenerReturns(i) \/ ListenerThrows(i) \/ CallHangs(i)

FairSpec == Spec /\ \A i \in 1..MaxSnipes : WF_vars(Continue(i))

\* --------------------------------------- what the gates report (logger.warn)
\* validateSniperOpportunity: the warning of the first rule whose comparison
\* is true, after which it returns
ValidateSniperOpportunityWarnings(opportunity, cfg) ==
  IF Less(opportunity.liquidity, cfg.minLiquidity) THEN << "Insufficient liquidity" >>
  ELSE IF Greater(opportunity.slippage, cfg.maxSlippage) THEN << "Slippage too high" >>
  ELSE IF Less(opportunity.expectedProfit, cfg.profitThreshold)
       THEN << "Profit below threshold" >>
  ELSE IF Greater(opportunity.riskScore, RiskLimit) THEN << "Risk score too high" >>
  ELSE IF Greater(opportunity.bondingCurveProgress, cfg.bondingCurveThreshold)
       THEN << "Bonding curve too advanced" >>
  ELSE << >>

ValidateOpportunityWarnings(opportunity, cfg) ==
  IF Less(opportunity.liquidity, cfg.minLiquidity) THEN << "Insufficient liquidity" >>
  ELSE IF Greater(opportunity.slippage, cfg.maxSlippage) THEN << "Slippage too high" >>
  ELSE IF Less(opportunity.expectedProfit, cfg.profitThreshold)
       THEN << "Profit below threshold" >>
  ELSE IF Greater(opportunity.riskScore, RiskLimit) THEN << "Risk score too high" >>
  ELSE << >>

\* ------------------------------------------- one decision, over wide inputs
WideDatas ==
  [ currentPrice : {0, 1000}, progress : {0, 50, 80, 90}, priceImpact : {100, 2000},
    liquidity : {0, 5000, 10000, 20000} ]

WideLaunchAnswers ==
  [ kind : {"absent", "throws"}, data : {Absent}, liquidity : {0},
    gasPrice : {0}, riskScore : {0} ]
  \cup
  [ kind : {"data"},
    data : { d \in WideDatas : d.liquidity = 10000 /\ d.priceImpact = 100 },
    liquidity : {0, 5000, 10000, 20000}, gasPrice : {0, 1},
    riskScore : {-5000, 0, 8000, 8001, 10000} ]

WidePollAnswers ==
  [ kind : {"absent"}, data : {Absent}, gasPrice : {0} ]
  \cup
  [ kind : {"throws", "noToken", "data"}, data : WideDatas, gasPrice : {0, 1} ]

WideSniperOpportunities ==
  [ tokenAddress : {"0xA"}, currentPrice : {1000}, targetPrice : {2000},
    liquidity : {0, 5000, 10000, 20000}, slippage : {40000, 50000, 60000},
    gasCost : {0}, expectedProfit : {NaN, 5, 10, 1000},
    riskScore : {-5000, 0, 8000, 8001} ]

\* walletBalance: whether a query of the wallet's balance would succeed while
\* the decision is taken; getAvailableBalance does not make that query
WalletBalances == {"available", "unavailable"}

PipeInputs ==
  [ kind : {"launch"}, token : {"0xA"}, answers : WideLaunchAnswers, handled : {FALSE},
    walletBalance : WalletBalances ]
  \cup
  [ kind : {"poll"}, token : {"0xA"}, answers : WidePollAnswers, handled : {FALSE},
    walletBalance : WalletBalances ]
  \cup
  [ kind : {"public"}, opportunity : WideSniperOpportunities, handled : {FALSE},
    walletBalance : WalletBalances ]

\* FourMemeSniperBot has been started and monitors the token, with its launch
\* handling pending or a poll tick due; SniperBot is as constructed
PipeInit ==
  /\ input \in PipeInputs
  /\ bot = (IF input.kind = "public" THEN "SB" ELSE "FM")
  /\ sniperConfig \in { DefaultConfig(m) : m \in MaxPositionSizes }
  /\ isRunning = (bot = "FM")
  /\ intervals = (IF bot = "FM" THEN 1 ELSE 0)
  /\ monitoredTokens = (IF bot = "FM" THEN {input.token} ELSE {})
  /\ launching = [t \in Tokens |-> IF input.kind = "launch" /\ t = input.token THEN 1 ELSE 0]
  /\ activeSnipes = << >>
  /\ activeTrades = << >>
  /\ exec = << >>
  /\ emitted = << >>
  /\ snipeOpp = << >>
  /\ output = NoOutput
  /\ totalProfit = 0
  /\ profitUpdated = << >>
  /\ ticks = << >>

PipeHandleTokenLaunch ==
  /\ input.kind = "launch"
  /\ ~input.handled
  /\ HandleTokenLaunchBody(input.token, input.answers)
  /\ input' = [input EXCEPT !.handled = TRUE]
  /\ UNCHANGED ticks

PipeBondingCurvePoll ==
  /\ input.kind = "poll"
  /\ ~input.handled
  /\ BondingCurvePollBody(input.token, input.answers)
  /\ input' = [input EXCEPT !.handled = TRUE]
  /\ UNCHANGED ticks

PipeHandleSniperOpportunity ==
  /\ input.kind = "public"
  /\ ~input.handled
  /\ HandleSniperOpportunityBody(input.opportunity)
  /\ input' = [input EXCEPT !.handled = TRUE]
  /\ UNCHANGED ticks

PipeNext ==
  \/ PipeHandleTokenLaunch
  \/ PipeBondingCurvePoll
  \/ PipeHandleSniperOpportunity
  \/ \E i \in 1..MaxSnipes : GasPriceReturns(i)
  \/ \E i \in 1..MaxSnipes : ProtectReturns(i)
  \/ \E i \in 1..MaxSnipes : ProtectThrows(i)
  \/ \E i \in 1..MaxSnipes : SendReturns(i)
  \/ \E i \in 1..MaxSnipes : SendThrows(i)
  \/ \E i \in 1..MaxSnipes, receipt \in {"ok", "failed"} : WaitReturns(i, receipt)
  \/ \E i \in 1..MaxSnipes : WaitThrows(i)
  \/ \E i \in 1..MaxSnipes : ListenerReturns(i)
  \/ \E i \in 1..MaxSnipes : ListenerThrows(i)
  \/ \E i \in 1..MaxSnipes : CallHangs(i)

PipeSpec == PipeInit /\ [][PipeNext]_vars

\* The opportunity the decision under consideration hands to the Risk Gate
\* has this liquidity (launch path: the DEX's answer; poll: the snapshot's)
InputLiquidity ==
  IF input.kind = "launch" THEN input.answers.liquidity
  ELSE IF input.kind = "poll" THEN input.answers.data.liquidity
  ELSE input.opportunity.liquidity

InputHasOpportunity ==
  \/ input.kind = "public"
  \/ input.kind \in {"launch", "poll"} /\ input.answers.kind # "absent"
       /\ input.answers.kind # "throws"

\* --------------------------------------------- the pure functions, applied
GateOpportunities ==
  [ liquidity : {5000, 10000, 20000}, slippage : {40000, 50000, 60000},
    expectedProfit : {NaN, 5, 10, 1000}, riskScore : {-5000, 8000, 8001},
    bondingCurveProgress : {50, 80, 90} ]

GateConfigs ==
  { DefaultConfig(100),
    [ DefaultConfig(100) EXCEPT !.minLiquidity = 20000, !.maxSlippage = 40000,
                                !.profitThreshold = 1000, !.bondingCurveThreshold = 50 ] }

Verdict(accepted) == IF accepted THEN "accept" ELSE "reject"

\* inputs of the Position Sizer and of createSnipe / createTrade
SizeOpportunities ==
  [ token : {"0xA"}, tokenAddress : {"0xA"}, currentPrice : {500, 1000, 2000},
    riskScore : {-5000, 0, 2000, 8000}, bondingCurveProgress : {50} ]

SizeConfigs ==
  { [ DefaultConfig(m) EXCEPT !.stopLossPercentage = sl, !.takeProfitPercentage = tp ] :
      m \in {50, 100, 2000}, sl \in {10, 50}, tp \in {20, 100} }

PureInit ==
  /\ input \in [ kind : {"gate"}, opportunity : GateOpportunities, cfg : GateConfigs ]
               \cup [ kind : {"size"}, opportunity : SizeOpportunities, cfg : SizeConfigs ]
  /\ output = NoOutput
  /\ totalProfit = 0
  /\ profitUpdated = << >>
  /\ ticks = << >>
  /\ bot = "FM"
  /\ sniperConfig = input.cfg
  /\ isRunning = FALSE
  /\ intervals = 0
  /\ monitoredTokens = {}
  /\ launching = [t \in Tokens |-> 0]
  /\ activeSnipes = << >>
  /\ activeTrades = << >>
  /\ exec = << >>
  /\ emitted = << >>
  /\ snipeOpp = << >>

PureFrame == UNCHANGED << bot, sniperConfig, isRunning, intervals, monitoredTokens,
                          launching, activeSnipes, activeTrades, exec, emitted,
                          snipeOpp, input,
                          totalProfit, profitUpdated, ticks >>

ApplyValidateSniperOpportunity ==
  /\ input.kind = "gate"
  /\ output.fm = "none"
  /\ output' = [output EXCEPT
                  !.fm = Verdict(ValidateSniperOpportunity(input.opportunity, sniperConfig))]
  /\ PureFrame

ApplyValidateOpportunity ==
  /\ input.kind = "gate"
  /\ output.sb = "none"
  /\ output' = [output EXCEPT
                  !.sb = Verdict(ValidateOpportunity(input.opportunity, sniperConfig))]
  /\ PureFrame

ApplyCalculatePositionSize ==
  /\ input.kind = "size"
  /\ output.fmSize = << >>
  /\ output' = [output EXCEPT
                  !.fmSize = << CalculatePositionSize(input.opportunity, sniperConfig) >>]
  /\ PureFrame

ApplySBCalculatePositionSize ==
  /\ input.kind = "size"
  /\ output.sbSize = << >>
  /\ output' = [output EXCEPT
                  !.sbSize = << SBCalculatePositionSize(input.opportunity, sniperConfig) >>]
  /\ PureFrame

\* createSnipe / createTrade as executeSnipe / handleSniperOpportunity call
\* them, with the size the sizer returned; the record is what they return
ApplyCreateSnipe ==
  /\ input.kind = "size"
  /\ output.snipe = << >>
  /\ output' = [output EXCEPT
                  !.snipe = << CreateSnipe(1, input.opportunity,
                                 CalculatePositionSize(input.opportunity, sniperConfig),
                                 sniperConfig) >>]
  /\ PureFrame

ApplyCreateTrade ==
  /\ input.kind = "size"
  /\ output.trade = << >>
  /\ output' = [output EXCEPT
                  !.trade = << CreateTrade(1, input.opportunity,
                                 SBCalculatePositionSize(input.opportunity, sniperConfig),
                                 sniperConfig) >>]
  /\ PureFrame

\* the gates applied again, recording what they log
ApplyValidateSniperOpportunityWarnings ==
  /\ input.kind = "gate"
  /\ output.fmWarnings = << >>
  /\ output' = [output EXCEPT
                  !.fmWarnings =
                     << ValidateSniperOpportunityWarnings(input.opportunity, sniperConfig) >>]
  /\ PureFrame

ApplyValidateOpportunityWarnings ==
  /\ input.kind = "gate"
  /\ output.sbWarnings = << >>
  /\ output' = [output EXCEPT
                  !.sbWarnings =
                     << ValidateOpportunityWarnings(input.opportunity, sniperConfig) >>]
  /\ PureFrame

PureNext ==
  \/ ApplyValidateSniperOpportunityWarnings
  \/ ApplyValidateOpportunityWarnings
  \/ ApplyValidateSniperOpportunity
  \/ ApplyValidateOpportunity
  \/ ApplyCalculatePositionSize
  \/ ApplySBCalculatePositionSize
  \/ ApplyCreateSnipe
  \/ ApplyCreateTrade

PureSpec == PureInit /\ [][PureNext]_vars

\* =================================================================== claims
Open(trade) == trade.status \in {"PENDING", "ACTIVE"}

Last(seq) == seq[Len(seq)]

\* the trade appended to the registry by this step, when one is
Creates == Len(Registry') = Len(Registry) + 1

\* C1: in every reachable state of FourMemeSniperBot, for every token address
\* at most one trade of activeSnipes has status PENDING or ACTIVE.
C1_OneOpenTradePerToken ==
  bot = "FM" =>
    \A i \in TradeIds, j \in TradeIds :
      (i # j /\ activeSnipes[i].token = activeSnipes[j].token)
        => ~(Open(activeSnipes[i]) /\ Open(activeSnipes[j]))

\* C2: a decision attempt for a token address that starts while an earlier trade
\* for that address has not resolved (is still PENDING) creates no trade record:
\* of two concurrent attempts exactly one adds an entry to the registry.
C2_SecondDecisionDropped ==
  [][ Creates =>
        ~ \E i \in TradeIds :
            /\ TokenOf(Registry[i]) = TokenOf(Registry'[Len(Registry')])
            /\ Registry[i].status = "PENDING" ]_vars

ForwardTransitions ==
  { << "PENDING", "ACTIVE" >>, << "PENDING", "STOPPED" >>,
    << "ACTIVE", "COMPLETED" >>, << "ACTIVE", "STOPPED" >> }

\* C3: over every step (execution continuations, stopAllSnipes / stop, thrown
\* collaborator or listener errors) a trade stays in the registry and its status
\* either stays or changes along PENDING -> ACTIVE, PENDING -> STOPPED,
\* ACTIVE -> COMPLETED, ACTIVE -> STOPPED; COMPLETED and STOPPED are never left.
C3_StatusOnlyForward ==
  [][ \A i \in TradeIds :
        /\ i \in DOMAIN Registry'
        /\ \/ Registry'[i].status = Registry[i].status
           \/ << Registry[i].status, Registry'[i].status >> \in ForwardTransitions ]_vars

\* a trade was halted while open and another was stopped after a confirmation,
\* or: a confirmed trade has been stopped and its execution has returned
C3_Witness ==
  \E i \in TradeIds :
    /\ Registry[i].status = "STOPPED"
    /\ exec[i].receipt = "ok"
    /\ exec[i].pc = "done"

\* C4: once the pipeline has handled an opportunity with liquidity < minLiquidity
\* that the launch path or the bonding-curve poll delivered, whatever its
\* expectedProfit and riskScore, there is no trade record and no transaction
\* has been started or submitted.
C4_NoTradeBelowMinLiquidity ==
  ( /\ input.kind \in {"launch", "poll"}
    /\ input.handled
    /\ InputHasOpportunity
    /\ Less(InputLiquidity, sniperConfig.minLiquidity) )
  => /\ activeSnipes = << >>
     /\ exec = << >>

\* the poll delivered a profitable analysis of a snapshot with liquidity 5000
\* (below the 10000 minimum) and low progress: only the liquidity rule stops it
C4_Witness ==
  /\ input.kind = "poll"
  /\ input.handled
  /\ input.answers.kind = "data"
  /\ input.answers.gasPrice = 0
  /\ input.answers.data = [currentPrice |-> 1000, progress |-> 0,
                           priceImpact |-> 100, liquidity |-> 5000]
  /\ activeSnipes = << >>

GreaterEq(a, b) == a # NaN /\ b # NaN /\ a >= b
LessEq(a, b) == a # NaN /\ b # NaN /\ a <= b

FiveRulesHold(opportunity, cfg) ==
  /\ GreaterEq(opportunity.liquidity, cfg.minLiquidity)
  /\ LessEq(opportunity.slippage, cfg.maxSlippage)
  /\ GreaterEq(opportunity.expectedProfit, cfg.profitThreshold)
  /\ LessEq(opportunity.riskScore, RiskLimit)
  /\ LessEq(opportunity.bondingCurveProgress, cfg.bondingCurveThreshold)

FourRulesViolated(opportunity, cfg) ==
  \/ Less(opportunity.liquidity, cfg.minLiquidity)
  \/ Greater(opportunity.slippage, cfg.maxSlippage)
  \/ Less(opportunity.expectedProfit, cfg.profitThreshold)
  \/ Greater(opportunity.riskScore, RiskLimit)

\* C5 (as stated): each gate, validateSniperOpportunity and validateOpportunity,
\* accepts exactly when liquidity >= minLiquidity, slippage <= maxSlippage,
\* expectedProfit >= profitThreshold, riskScore <= 0.8 and
\* bondingCurveProgress <= bondingCurveThreshold all hold, and changes no state.
C5_GateAcceptsIffFiveRules ==
  /\ output.fm # "none" =>
       (output.fm = "accept" <=> FiveRulesHold(input.opportunity, input.cfg))
  /\ output.sb # "none" =>
       (output.sb = "accept" <=> FiveRulesHold(input.opportunity, input.cfg))
  /\ sniperConfig = input.cfg
  /\ Registry = << >>

\* C5 (amended): each gate is a function of (opportunity, configuration) that
\* changes no state and rejects exactly when one of its comparisons is true:
\* liquidity < minLiquidity, slippage > maxSlippage, expectedProfit <
\* profitThreshold, riskScore > 0.8 and, in validateSniperOpportunity only,
\* bondingCurveProgress > bondingCurveThreshold; a NaN field makes no
\* comparison true, and validateOpportunity has no bonding-curve rule.
C5_GateRejectsIffComparisonTrue ==
  /\ output.fm # "none" =>
       (output.fm = "reject" <=>
          \/ FourRulesViolated(input.opportunity, input.cfg)
          \/ Greater(input.opportunity.bondingCurveProgress,
                     input.cfg.bondingCurveThreshold))
  /\ output.sb # "none" =>
       (output.sb = "reject" <=> FourRulesViolated(input.opportunity, input.cfg))
  /\ sniperConfig = input.cfg
  /\ Registry = << >>

\* both gates were applied to an opportunity whose only violated rule is the
\* bonding-curve one: validateSniperOpportunity rejects, validateOpportunity accepts
C5_Witness ==
  /\ output.fm = "reject"
  /\ output.sb = "accept"
  /\ input.opportunity.riskScore = 8000
  /\ input.opportunity.expectedProfit # NaN

\* C6: every trade, at its creation, has amount <= maxPositionSize and
\* amount <= 0.1 x availableBalance, for every riskScore the gate lets through
\* (negative ones included) and the configuration in force at that step.
\* (amount is in 1e-7, maxPositionSize and the balance in 1e-3)
C6_AmountWithinLimits ==
  [][ Creates =>
        LET trade == Registry'[Len(Registry')]
        IN  /\ trade.amount <= sniperConfig.maxPositionSize * 10000
            /\ trade.amount <= GetAvailableBalance * 1000 ]_vars

\* the confirmation of trade i's transaction arrives in this step
Confirms(i, receipt) ==
  /\ i \in DOMAIN exec
  /\ exec[i].receipt = "none"
  /\ exec'[i].receipt = receipt

\* C7: in the step where the confirmation of a submitted snipe reports success
\* the trade becomes ACTIVE and snipeExecuted is emitted for it; where it reports
\* a failure status the trade becomes STOPPED and snipeFailed is emitted for it;
\* and no trade is ACTIVE unless its own transaction was confirmed successful.
C7_ConfirmationDecidesStatus ==
  [][ bot = "FM" =>
        \A i \in DOMAIN exec' :
          /\ Confirms(i, "ok") =>
               /\ activeSnipes[i].status = "PENDING"
               /\ activeSnipes'[i].status = "ACTIVE"
               /\ emitted'[i] = Append(emitted[i], "snipeExecuted")
          /\ Confirms(i, "failed") =>
               /\ activeSnipes'[i].status = "STOPPED"
               /\ emitted'[i] = Append(emitted[i], "snipeFailed")
          /\ activeSnipes'[i].status = "ACTIVE" => exec'[i].receipt = "ok" ]_vars

\* one snipe was confirmed successful and is ACTIVE with snipeExecuted reported,
\* another was confirmed failed and is STOPPED with snipeFailed reported
C7_Witness ==
  /\ bot = "FM"
  /\ \E i \in TradeIds :
       /\ exec[i].receipt = "ok" /\ exec[i].pc = "done"
       /\ activeSnipes[i].status = "ACTIVE"
       /\ emitted[i] = << "snipeExecuted" >>
  /\ \E j \in TradeIds :
       /\ exec[j].receipt = "failed" /\ exec[j].pc = "done"
       /\ activeSnipes[j].status = "STOPPED"
       /\ emitted[j] = << "snipeFailed" >>

\* C8: a PENDING snipe that a failure moves to STOPPED reports snipeError when
\* the failure came before the broadcast (gas query, protection or submit
\* threw) and snipeFailed, never snipeError, when it came after the broadcast
\* (failure status, or the confirmation wait threw).
C8_FailureKindsDistinguished ==
  [][ bot = "FM" =>
        \A i \in TradeIds :
          (activeSnipes[i].status = "PENDING" /\ activeSnipes'[i].status = "STOPPED")
            => IF exec[i].pc = "wait"
               THEN emitted'[i] = Append(emitted[i], "snipeFailed")
               ELSE emitted'[i] = Append(emitted[i], "snipeError") ]_vars

\* C9: every trade record has one execution, and that execution hands at most
\* one transaction to wallet.sendTransaction, whatever fails afterwards.
C9_AtMostOneSubmission ==
  /\ Len(exec) = Len(Registry)
  /\ \A i \in DOMAIN exec : exec[i].submits <= 1

\* a submitted transaction failed (the submit or the wait threw), the trade is
\* STOPPED, its execution has returned, and it was submitted once
C9_Witness ==
  \E i \in TradeIds :
    /\ exec[i].pc = "done"
    /\ exec[i].submits = 1
    /\ exec[i].receipt = "none"
    /\ Registry[i].status = "STOPPED"

\* C10: every trade created in PENDING eventually leaves PENDING, even when a
\* collaborator call made during its execution never returns.
C10_PendingEventuallyResolves ==
  \A i \in 1..MaxSnipes :
    (i \in TradeIds /\ Registry[i].status = "PENDING")
      ~> (i \in TradeIds /\ Registry[i].status # "PENDING")

\* C11: a step of stopAllSnipes / stopAllTrades (alone or inside stop) turns
\* every trade that is ACTIVE into STOPPED and leaves every other trade as it
\* is: PENDING stays PENDING, STOPPED stays STOPPED, the registry keeps its
\* length and order, and no field but status differs.
C11_StopAllFrame ==
  [][ (StopAllSnipes \/ Stop \/ StopAllTrades \/ SBStop) =>
        /\ Len(Registry') = Len(Registry)
        /\ \A i \in TradeIds :
             Registry'[i] = IF Registry[i].status = "ACTIVE"
                            THEN [Registry[i] EXCEPT !.status = "STOPPED"]
                            ELSE Registry[i] ]_vars

\* a halt met an ACTIVE trade and a PENDING one: the first is STOPPED with only
\* its success reported, the second still awaits its confirmation
C11_Witness ==
  \E i \in TradeIds, j \in TradeIds :
    /\ Registry[i].status = "STOPPED"
    /\ exec[i].receipt = "ok"
    /\ emitted[i] = << EventName("Executed") >>
    /\ Registry[j].status = "PENDING"
    /\ exec[j].pc = "wait"

\* ------------------------------------------ the market, seen by open trades
\* Live prices of a token whose trades entered at 1.0: below the stop-loss
\* (0.9), between the thresholds, above the take-profit (1.2)
LivePrices == {800, 1000, 1300}

ExitInit ==
  /\ bot \in {"FM", "SB"}
  /\ sniperConfig \in { DefaultConfig(m) : m \in MaxPositionSizes }
  /\ isRunning = FALSE
  /\ intervals = 0
  /\ monitoredTokens = {}
  /\ launching = [t \in Tokens |-> 0]
  /\ activeSnipes = << >>
  /\ activeTrades = << >>
  /\ exec = << >>
  /\ emitted = << >>
  /\ snipeOpp = << >>
  /\ input = [kind |-> "price", price |-> 1000]
  /\ output = NoOutput
  /\ totalProfit = 0
  /\ profitUpdated = << >>
  /\ ticks = << >>

\* the bonding-curve contract's price changes; no code of the bot runs
PriceMoves(price) ==
  /\ input.kind = "price"
  /\ price # input.price
  /\ input' = [input EXCEPT !.price = price]
  /\ UNCHANGED << bot, sniperConfig, isRunning, intervals, monitoredTokens, launching,
                  activeSnipes, activeTrades, exec, emitted, snipeOpp, output,
                  totalProfit, profitUpdated, ticks >>

ExitNext ==
  \/ Next
  \/ \E price \in LivePrices : PriceMoves(price)

ExitSpec == ExitInit /\ [][ExitNext]_vars /\ \A i \in 1..MaxSnipes : WF_vars(Continue(i))

Breached(trade) ==
  /\ input.kind = "price"
  /\ \/ input.price <= trade.stopLoss
     \/ input.price >= trade.takeProfit

\* C12: whenever a snipe is ACTIVE and the live price of its token is at or
\* below its stopLoss or at or above its takeProfit, the snipe eventually is
\* COMPLETED or STOPPED: a breached ACTIVE snipe does not stay ACTIVE forever.
C12_BreachedTradeEventuallyExits ==
  \A i \in 1..MaxSnipes :
    (i \in DOMAIN activeSnipes /\ activeSnipes[i].status = "ACTIVE"
       /\ Breached(activeSnipes[i]))
      ~> (i \in DOMAIN activeSnipes
            /\ activeSnipes[i].status \in {"COMPLETED", "STOPPED"})

\* ------------------------- the bonding-curve poll, callback by callback
MaxTicks == 2

\* for (const tokenAddress of this.monitoredTokens): a Set iterates in
\* insertion order
IterationOrder == << "0xA", "0xB" >>

IdleTick == [pc |-> "idle", pos |-> 0, frame |-> 0]

\* a callback that has returned, or that awaits a call that never settles: it
\* never runs again, and its place is taken by a later firing of the timer
Inert(k) ==
  \/ ticks[k].pc \in {"idle", "hung"}
  \/ ticks[k].pc = "exec" /\ exec[ticks[k].frame].pc = "hung"

\* the loop moves to the next token, or the callback returns
Advance(tick) ==
  IF tick.pos < Len(IterationOrder)
  THEN [pc |-> "data", pos |-> tick.pos + 1, frame |-> 0]
  ELSE IdleTick

TickInit ==
  /\ bot = "FM"
  /\ sniperConfig = DefaultConfig(100)
  /\ isRunning = TRUE
  /\ intervals = 1
  /\ monitoredTokens = { IterationOrder[p] : p \in DOMAIN IterationOrder }
  /\ launching = [t \in Tokens |-> 0]
  /\ activeSnipes = << >>
  /\ activeTrades = << >>
  /\ exec = << >>
  /\ emitted = << >>
  /\ snipeOpp = << >>
  /\ input = NoInput
  /\ output = NoOutput
  /\ totalProfit = 0
  /\ profitUpdated = << >>
  /\ ticks = [k \in 1..MaxTicks |-> IdleTick]

\* the 2-second timer fires: the callback starts with the first token and
\* awaits getBondingCurveData
TickFires(k) ==
  /\ k \in DOMAIN ticks
  /\ ~InListener
  /\ Inert(k)
  /\ ticks' = [ticks EXCEPT ![k] = [pc |-> "data", pos |-> 1, frame |-> 0]]
  /\ UNCHANGED << bot, sniperConfig, isRunning, intervals, monitoredTokens, launching,
                  activeSnipes, activeTrades, exec, emitted, snipeOpp, input, output,
                  totalProfit, profitUpdated >>

\* the collaborators answer for the token the callback is at: it is evaluated,
\* and the callback either awaits the snipe it started or moves on
TickEvaluates(k, answers) ==
  /\ k \in DOMAIN ticks
  /\ ticks[k].pc = "data"
  /\ BondingCurvePollBody(IterationOrder[ticks[k].pos], answers)
  /\ ticks' = [ticks EXCEPT ![k] =
                 IF Len(activeSnipes') > Len(activeSnipes)
                 THEN [pc |-> "exec", pos |-> ticks[k].pos, frame |-> Len(activeSnipes')]
                 ELSE Advance(ticks[k])]
  /\ UNCHANGED input

\* executeSnipe has returned: the loop goes on
TickResumes(k) ==
  /\ k \in DOMAIN ticks
  /\ ~InListener
  /\ ticks[k].pc = "exec"
  /\ exec[ticks[k].frame].pc = "done"
  /\ ticks' = [ticks EXCEPT ![k] = Advance(ticks[k])]
  /\ UNCHANGED << bot, sniperConfig, isRunning, intervals, monitoredTokens, launching,
                  activeSnipes, activeTrades, exec, emitted, snipeOpp, input, output,
                  totalProfit, profitUpdated >>

\* getBondingCurveData, analyzeOpportunity or getToken never settles
TickHangs(k) ==
  /\ k \in DOMAIN ticks
  /\ ~InListener
  /\ ticks[k].pc = "data"
  /\ ticks' = [ticks EXCEPT ![k].pc = "hung"]
  /\ UNCHANGED << bot, sniperConfig, isRunning, intervals, monitoredTokens, launching,
                  activeSnipes, activeTrades, exec, emitted, snipeOpp, input, output,
                  totalProfit, profitUpdated >>

TickNext ==
  \/ \E k \in 1..MaxTicks : TickFires(k)
  \/ \E k \in 1..MaxTicks, answers \in PollAnswers : TickEvaluates(k, answers)
  \/ \E k \in 1..MaxTicks : TickResumes(k)
  \/ \E k \in 1..MaxTicks : TickHangs(k)
  \/ \E i \in 1..MaxSnipes : GasPriceReturns(i)
  \/ \E i \in 1..MaxSnipes : ProtectReturns(i)
  \/ \E i \in 1..MaxSnipes : ProtectThrows(i)
  \/ \E i \in 1..MaxSnipes : SendReturns(i)
  \/ \E i \in 1..MaxSnipes : SendThrows(i)
  \/ \E i \in 1..MaxSnipes, receipt \in {"ok", "failed"} : WaitReturns(i, receipt)
  \/ \E i \in 1..MaxSnipes : WaitThrows(i)
  \/ \E i \in 1..MaxSnipes : ListenerReturns(i)
  \/ \E i \in 1..MaxSnipes : ListenerThrows(i)
  \/ \E i \in 1..MaxSnipes : CallHangs(i)

\* the timer keeps firing, every awaited call settles or hangs, and the
\* continuation of a settled call is run
TickStep(k) ==
  \/ TickResumes(k)
  \/ TickHangs(k)
  \/ \E answers \in PollAnswers : TickEvaluates(k, answers)

TickSpec ==
  /\ TickInit
  /\ [][TickNext]_vars
  /\ WF_vars(\E k \in 1..MaxTicks : TickFires(k))
  /\ \A k \in 1..MaxTicks : WF_vars(TickStep(k))
  /\ \A i \in 1..MaxSnipes : WF_vars(Continue(i))

\* some callback of the poll is evaluating the token
Evaluating(token) ==
  \E k \in DOMAIN ticks :
    ticks[k].pc = "data" /\ IterationOrder[ticks[k].pos] = token

\* C13: with the timer firing again and again, every monitored token is
\* evaluated by the bonding-curve poll again and again, whatever throws or
\* never returns while an earlier token of the iteration is processed.
C13_EveryTokenEvaluatedAgain ==
  \A token \in Tokens : []<>Evaluating(token)

\* C14: totalProfit changes only in a step that completes the exit of a trade,
\* and a step that changes it emits exactly one profitUpdated whose payload is
\* the new total; start, stop, stopAll and the execution of a snipe leave it.
C14_ProfitOnlyFromCompletedExits ==
  [][ totalProfit' # totalProfit =>
        /\ \E i \in TradeIds :
             Registry[i].status = "ACTIVE" /\ Registry'[i].status = "COMPLETED"
        /\ profitUpdated' = Append(profitUpdated, totalProfit') ]_vars

\* a record has the entry price of its opportunity, thresholds at the
\* configured percentages of it, and status PENDING
CreatedAsSpecified(trade) ==
  /\ trade.entryPrice = input.opportunity.currentPrice
  /\ trade.stopLoss * 100 = trade.entryPrice * (100 - input.cfg.stopLossPercentage)
  /\ trade.takeProfit * 100 = trade.entryPrice * (100 + input.cfg.takeProfitPercentage)
  /\ trade.status = "PENDING"
  /\ ( /\ trade.entryPrice = 1000
       /\ input.cfg.stopLossPercentage = 10
       /\ input.cfg.takeProfitPercentage = 20 )
     => (trade.stopLoss = 900 /\ trade.takeProfit = 1200)

\* C15: createSnipe and createTrade return a record with entryPrice equal to
\* the opportunity's currentPrice, stopLoss = entryPrice x (1 - stopLossPercentage/100),
\* takeProfit = entryPrice x (1 + takeProfitPercentage/100) and status PENDING;
\* entryPrice 1.0 with percentages 10 and 20 gives 0.9 and 1.2.
C15_CreatedWithThresholds ==
  /\ output.snipe # << >> => CreatedAsSpecified(output.snipe[1])
  /\ output.trade # << >> => CreatedAsSpecified(output.trade[1])

\* both classes created a record at entry price 1.0 with percentages 10 and 20
C15_Witness ==
  /\ output.snipe # << >>
  /\ output.trade # << >>
  /\ input.cfg.stopLossPercentage = 10
  /\ input.cfg.takeProfitPercentage = 20
  /\ output.snipe[1].entryPrice = 1000 /\ output.snipe[1].stopLoss = 900
  /\ output.trade[1].entryPrice = 1000 /\ output.trade[1].takeProfit = 1200

\* C16: no step changes the id, token, entryPrice, amount, stopLoss or
\* takeProfit of a trade that exists, nor removes it from the registry: after a
\* step every trade equals what it was, up to its status.
C16_OnlyStatusChanges ==
  [][ \A i \in TradeIds :
        /\ i \in DOMAIN Registry'
        /\ [Registry'[i] EXCEPT !.status = Registry[i].status] = Registry[i] ]_vars

\* a trade has been executed and confirmed, and maxPositionSize was reduced
\* after its creation: its amount is still the one sized at creation, not the
\* one the configuration in force would give
C16_Witness ==
  /\ bot = "SB"
  /\ \E i \in TradeIds :
       /\ activeTrades[i].status = "ACTIVE"
       /\ activeTrades[i].amount # SBCalculatePositionSize(snipeOpp[i], sniperConfig)
       /\ activeTrades[i] = [CreateTrade(i, snipeOpp[i], activeTrades[i].amount, sniperConfig)
                               EXCEPT !.status = "ACTIVE"]

\* size is the smaller of the risk-adjusted size and a tenth of the balance
\* (size in 1e-7; maxPositionSize and the balance in 1e-3, riskScore in 1e-4)
IsSizerFormula(size) ==
  LET riskAdjusted == input.cfg.maxPositionSize * (10000 - input.opportunity.riskScore)
      balanceShare == AvailableBalance * 1000
  IN  /\ size <= riskAdjusted
      /\ size <= balanceShare
      /\ size \in {riskAdjusted, balanceShare}

\* C17: for every opportunity and configuration, calculatePositionSize of
\* FourMemeSniperBot and of SniperBot returns exactly
\* min(maxPositionSize x (1 - riskScore), availableBalance x 0.1), and the call
\* leaves the configuration and the registry as they were.
C17_SizerFormula ==
  /\ output.fmSize # << >> => IsSizerFormula(output.fmSize[1])
  /\ output.sbSize # << >> => IsSizerFormula(output.sbSize[1])
  /\ sniperConfig = input.cfg
  /\ Registry = << >>

\* both sizers were applied where the balance limits the size (maxPositionSize
\* 2.0, riskScore 0.2: 1.6 against 0.1)
C17_Witness ==
  /\ input.kind = "size"
  /\ input.cfg.maxPositionSize = 2000
  /\ input.opportunity.riskScore = 2000
  /\ output.fmSize = << 1000000 >>
  /\ output.sbSize = << 1000000 >>

\* C18: when the wallet's balance cannot be obtained while a decision is taken,
\* sizing fails closed: the decision creates no trade record and starts no
\* transaction.
C18_NoTradeWithoutBalance ==
  (input.kind \in {"launch", "poll", "public"} /\ input.handled
     /\ input.walletBalance = "unavailable")
  => (Registry = << >> /\ exec = << >>)

Count(holds) == IF holds THEN 1 ELSE 0

\* how many of the gate's rules the opportunity violates
ViolatedRules(opportunity, cfg, withBondingCurve) ==
  Count(Less(opportunity.liquidity, cfg.minLiquidity))
  + Count(Greater(opportunity.slippage, cfg.maxSlippage))
  + Count(Less(opportunity.expectedProfit, cfg.profitThreshold))
  + Count(Greater(opportunity.riskScore, RiskLimit))
  + Count(withBondingCurve /\ Greater(opportunity.bondingCurveProgress,
                                      cfg.bondingCurveThreshold))

\* C19: each gate reports every rule the opportunity violates: for an
\* opportunity violating k of the gate's rules, k rejection reasons are
\* reported.
C19_GateReportsEveryViolation ==
  /\ output.fmWarnings # << >> =>
       Len(output.fmWarnings[1]) = ViolatedRules(input.opportunity, input.cfg, TRUE)
  /\ output.sbWarnings # << >> =>
       Len(output.sbWarnings[1]) = ViolatedRules(input.opportunity, input.cfg, FALSE)

\* the decision under consideration found the snapshot, or the token record,
\* of its token absent
InputAbsent ==
  /\ input.kind \in {"launch", "poll"}
  /\ input.handled
  /\ input.answers.kind \in {"absent", "noToken"}

\* C20: after a poll cycle (or a launch handling) that found the snapshot or
\* the token record of a monitored token absent, no trade exists and no
\* transaction was started for it, the token is still monitored, the poll timer
\* is still scheduled, and a later tick of the poll can evaluate the token.
C20_AbsentDataSkipsCycle ==
  InputAbsent =>
    /\ activeSnipes = << >>
    /\ exec = << >>
    /\ input.token \in monitoredTokens
    /\ intervals > 0
    /\ \E answers \in PollAnswers : ENABLED BondingCurvePoll(input.token, answers)

\* a poll cycle got no snapshot for its token
C20_Witness ==
  /\ input.kind = "poll"
  /\ input.handled
  /\ input.answers.kind = "absent"
  /\ input.token \in monitoredTokens

\* a collaborator call failed inside the analysis of the decision under
\* consideration
InputAnalysisFailed ==
  /\ input.kind \in {"launch", "poll"}
  /\ input.handled
  /\ input.answers.kind = "throws"

\* C21: the default analysis has isProfitable = false and riskScore = 1, and
\* after a decision in which a collaborator call failed inside the analysis
\* (analyzeSniperOpportunity returned null, analyzeOpportunity the default
\* analysis) no trade exists, no transaction was started, and the poll is still
\* scheduled and can evaluate the token again.
C21_FailedAnalysisCreatesNothing ==
  /\ ~GetDefaultAnalysis.isProfitable
  /\ GetDefaultAnalysis.riskScore = 10000
  /\ InputAnalysisFailed =>
       /\ activeSnipes = << >>
       /\ exec = << >>
       /\ intervals > 0
       /\ input.token \in monitoredTokens
       /\ \E answers \in PollAnswers : ENABLED BondingCurvePoll(input.token, answers)

\* the fee-data query failed while the poll analysed a snapshot that passes
\* every rule of the gate and would have been profitable at gas price 0
C21_Witness ==
  /\ input.kind = "poll"
  /\ input.handled
  /\ input.answers.kind = "throws"
  /\ input.answers.gasPrice = 0
  /\ input.answers.data = [currentPrice |-> 1000, progress |-> 0,
                           priceImpact |-> 100, liquidity |-> 10000]
  /\ activeSnipes = << >>

\* ------------------------------------------------ initialize() and its caller
\* input.result: what the last call of initialize() gave its caller
InitializeInit ==
  /\ bot \in {"FM", "SB"}
  /\ sniperConfig \in { DefaultConfig(m) : m \in MaxPositionSizes }
  /\ isRunning = FALSE
  /\ intervals = 0
  /\ monitoredTokens = {}
  /\ launching = [t \in Tokens |-> 0]
  /\ activeSnipes = << >>
  /\ activeTrades = << >>
  /\ exec = << >>
  /\ emitted = << >>
  /\ snipeOpp = << >>
  /\ input = [kind |-> "init", result |-> "none"]
  /\ output = NoOutput
  /\ totalProfit = 0
  /\ profitUpdated = << >>
  /\ ticks = << >>

\* initialize(): it awaits provider.getBalance and the initialize() of its
\* collaborators in turn, rethrows the first failure, and assigns no field
Initialize(result) ==
  /\ input.kind = "init"
  /\ ~InListener
  /\ result # input.result
  /\ input' = [input EXCEPT !.result = result]
  /\ UNCHANGED << bot, sniperConfig, isRunning, intervals, monitoredTokens, launching,
                  activeSnipes, activeTrades, exec, emitted, snipeOpp, output,
                  totalProfit, profitUpdated, ticks >>

InitializeNext ==
  \/ Next
  \/ \E result \in {"ok", "threw"} : Initialize(result)

InitializeSpec == InitializeInit /\ [][InitializeNext]_vars

\* C22: while the last initialize() has failed (it threw to its caller and no
\* later initialize() has succeeded), no step schedules a polling task and no
\* step creates a trade.
C22_FailedInitializeStartsNothing ==
  [][ (input.kind = "init" /\ input.result = "threw")
        => (intervals' = intervals /\ ~Creates) ]_vars

\* C23: no step of either class changes a value of the sniper configuration:
\* sniperConfig stays what the constructor loaded.
C23_ConfigurationReadOnly ==
  [][ sniperConfig' = sniperConfig ]_vars

\* ------------------------------------------------------------- GasOptimizer
\* A gas price is a bigint number of wei; it is kept as whole gwei and the
\* wei below one gwei, value = gwei x 1e9 + wei with 0 <= wei < 1e9.
WeiPerGwei == 1000000000

GasPrice(gwei, wei) == [gwei |-> gwei, wei |-> wei]

\* carries the whole gwei out of the wei part
Normalize(gwei, wei) == GasPrice(gwei + wei \div WeiPerGwei, wei % WeiPerGwei)

\* a > b on two gas prices
GasGreater(a, b) == a.gwei > b.gwei \/ (a.gwei = b.gwei /\ a.wei > b.wei)

\* BigInt(1 * 1e9) and BigInt(5 * 1e9)
MinGasPrice == GasPrice(1, 0)
FallbackGasPrice == GasPrice(5, 0)

\* What getNetworkCongestion returns, in 1e-3: 0.5 when fewer than ten prices
\* are recorded or its computation fails, else min(volatility x 2, 1) of the
\* recorded prices, which is NaN when they are all 0
NetworkCongestions == {0, 299, 300, 301, 500, 600, 601, 800, 801, 850, 1000, NaN}

\* mutant: congestion 0.8 already counts as high
GasMultiplier_HighAtBoundary(congestionLevel) ==
  IF ~Less(congestionLevel, 800) /\ congestionLevel # NaN THEN 15
  ELSE IF Greater(congestionLevel, 600) THEN 12
  ELSE IF Less(congestionLevel, 300) THEN 9
  ELSE 10

\* the multiplier calculateOptimalGasPrice chooses, in tenths
GasMultiplier(congestionLevel) ==
  IF Greater(congestionLevel, 800) THEN 15
  ELSE IF Greater(congestionLevel, 600) THEN 12
  ELSE IF Less(congestionLevel, 300) THEN 9
  ELSE 10

\* BigInt(Math.floor(Number(price) * multiplier)), multiplier = tenths / 10.
\* gwei x 1e9 x tenths / 10 is a whole number of wei, so the floor acts on the
\* wei part; the double product is within 1e-5 of the exact one and the exact
\* one is a multiple of 0.1, so the floor of the double is the exact floor.
MulFloor(price, tenths) ==
  LET gweiTenths == price.gwei * tenths
      weiFloor == (price.wei \div 10) * tenths + ((price.wei % 10) * tenths) \div 10
      carried == Normalize(0, weiFloor)
  IN  Normalize(gweiTenths \div 10 + carried.gwei,
                (gweiTenths % 10) * (WeiPerGwei \div 10) + carried.wei)

\* mutant: the minimum is not enforced
CalculateOptimalGasPrice_NoMinimum(currentGasPrice, congestionLevel) ==
  MulFloor(currentGasPrice, GasMultiplier(congestionLevel))

\* calculateOptimalGasPrice; congestionLevel is what getNetworkCongestion
\* returned (it catches its own failures, and nothing else in the try throws)
CalculateOptimalGasPrice(currentGasPrice, congestionLevel) ==
  LET optimalGasPrice == MulFloor(currentGasPrice, GasMultiplier(congestionLevel))
  IN  IF GasGreater(optimalGasPrice, MinGasPrice) THEN optimalGasPrice ELSE MinGasPrice

\* What provider.getFeeData does: it rejects, it reports no gas price
\* (gasPrice null), or it reports one
GasPrices ==
  { GasPrice(0, 0), GasPrice(0, 1), GasPrice(0, 500000001), GasPrice(0, 833333333),
    GasPrice(0, 833333334), GasPrice(0, 999999999), GasPrice(1, 0), GasPrice(1, 1),
    GasPrice(1, 111111111), GasPrice(1, 111111112), GasPrice(1, 111111113),
    GasPrice(10, 0), GasPrice(10, 3), GasPrice(123, 456789012) }

FeeDatas ==
  [ kind : {"throws", "noGasPrice"}, gasPrice : {GasPrice(0, 0)} ]
  \cup [ kind : {"price"}, gasPrice : GasPrices ]

\* getOptimalGasPrice
GetOptimalGasPrice(feeData, congestionLevel) ==
  IF feeData.kind = "throws" THEN FallbackGasPrice
  ELSE LET currentGasPrice == IF feeData.kind = "noGasPrice" THEN GasPrice(0, 0)
                              ELSE feeData.gasPrice
       IN  CalculateOptimalGasPrice(currentGasPrice, congestionLevel)

NoGasOutput == [optimalGasPrice |-> << >>, calculated |-> << >>]

GasInit ==
  /\ input \in [ kind : {"gas"}, feeData : FeeDatas, congestionLevel : NetworkCongestions ]
  /\ output = NoGasOutput
  /\ bot = "FM"
  /\ sniperConfig = DefaultConfig(100)
  /\ isRunning = FALSE
  /\ intervals = 0
  /\ monitoredTokens = {}
  /\ launching = [t \in Tokens |-> 0]
  /\ activeSnipes = << >>
  /\ activeTrades = << >>
  /\ exec = << >>
  /\ emitted = << >>
  /\ snipeOpp = << >>
  /\ totalProfit = 0
  /\ profitUpdated = << >>
  /\ ticks = << >>

ApplyGetOptimalGasPrice ==
  /\ input.kind = "gas"
  /\ output.optimalGasPrice = << >>
  /\ output' = [output EXCEPT
                  !.optimalGasPrice =
                     << GetOptimalGasPrice(input.feeData, input.congestionLevel) >>]
  /\ PureFrame

ApplyCalculateOptimalGasPrice ==
  /\ input.kind = "gas"
  /\ input.feeData.kind = "price"
  /\ output.calculated = << >>
  /\ output' = [output EXCEPT
                  !.calculated =
                     << CalculateOptimalGasPrice(input.feeData.gasPrice,
                                                 input.congestionLevel) >>]
  /\ PureFrame

GasNext ==
  \/ ApplyGetOptimalGasPrice
  \/ ApplyCalculateOptimalGasPrice

GasSpec == GasInit /\ [][GasNext]_vars

\* floor(price / d) for d dividing 1e9
DivFloor(price, d) ==
  GasPrice(price.gwei \div d,
           (price.gwei % d) * (WeiPerGwei \div d) + price.wei \div d)

GasPlus(a, b) == Normalize(a.gwei + b.gwei, a.wei + b.wei)

GasMinus(a, b) ==
  IF a.wei >= b.wei THEN GasPrice(a.gwei - b.gwei, a.wei - b.wei)
  ELSE GasPrice(a.gwei - b.gwei - 1, a.wei + WeiPerGwei - b.wei)

\* the price times the multiplier the claim names for the congestion, rounded
\* down: x1.5 is x + floor(x/2), x1.2 is x + floor(x/5), x0.9 is x - ceil(x/10)
ClaimedProduct(price, congestionLevel) ==
  IF congestionLevel # NaN /\ congestionLevel > 800
  THEN GasPlus(price, DivFloor(price, 2))
  ELSE IF congestionLevel # NaN /\ congestionLevel > 600 /\ congestionLevel <= 800
  THEN GasPlus(price, DivFloor(price, 5))
  ELSE IF congestionLevel # NaN /\ congestionLevel < 300
  THEN GasMinus(price, DivFloor(GasPlus(price, GasPrice(0, 9)), 10))
  ELSE price

ClaimedOptimalGasPrice(price, congestionLevel) ==
  LET product == ClaimedProduct(price, congestionLevel)
  IN  IF product.gwei < 1 THEN MinGasPrice ELSE product

\* C24: the optimal gas price is the current price times 1.5 when congestion >
\* 0.8, times 1.2 when 0.6 < congestion <= 0.8, times 0.9 when congestion < 0.3
\* and times 1.0 otherwise (0.3 and 0.6 included), rounded down to whole wei
\* and replaced by 1 gwei when below it; 10 gwei at congestion 0.85 gives 15 gwei.
C24_OptimalGasPriceByCongestion ==
  /\ output.calculated # << >> =>
       output.calculated[1] =
         ClaimedOptimalGasPrice(input.feeData.gasPrice, input.congestionLevel)
  /\ (output.optimalGasPrice # << >> /\ input.feeData.kind = "price") =>
       output.optimalGasPrice[1] =
         ClaimedOptimalGasPrice(input.feeData.gasPrice, input.congestionLevel)
  /\ ( /\ output.calculated # << >>
       /\ input.feeData.gasPrice = GasPrice(10, 0)
       /\ input.congestionLevel = 850 )
     => output.calculated[1] = GasPrice(15, 0)

\* the scenario: 10 gwei at congestion 0.85 was computed, and gave 15 gwei
C24_Witness ==
  /\ input.kind = "gas"
  /\ input.feeData = [kind |-> "price", gasPrice |-> GasPrice(10, 0)]
  /\ input.congestionLevel = 850
  /\ output.calculated = << GasPrice(15, 0) >>
  /\ output.optimalGasPrice = << GasPrice(15, 0) >>

\* C25: whatever getFeeData does (it rejects, reports no gas price or reports
\* one) and whatever the congestion computation gives, the price
\* getOptimalGasPrice returns is at least 1 gwei.
C25_NeverBelowMinimum ==
  (input.kind = "gas" /\ output.optimalGasPrice # << >>) =>
    output.optimalGasPrice[1].gwei >= 1

\* the fee data reported a price whose product with 0.9 is below 1 gwei: the
\* minimum was returned
C25_Witness ==
  /\ input.kind = "gas"
  /\ input.feeData = [kind |-> "price", gasPrice |-> GasPrice(1, 111111111)]
  /\ input.congestionLevel = 299
  /\ output.optimalGasPrice = << MinGasPrice >>

\* --------------------------------- BondingCurveAnalyzer's functions, applied
\* mutant: an expected profit of exactly 0.1 already gives BUY
GetRecommendation_BuyAtBoundary(bondingCurveData, expectedProfit, riskScore) ==
  IF expectedProfit # NaN /\ expectedProfit >= 100 /\ Less(riskScore, 5000) THEN "BUY"
  ELSE IF Greater(expectedProfit, 50) /\ Less(riskScore, 7000) THEN "HOLD"
  ELSE IF Less(expectedProfit, -50) THEN "SELL"
  ELSE "WAIT"

\* getRecommendation; expectedProfit in 1e-3, riskScore in 1e-4
GetRecommendation(bondingCurveData, expectedProfit, riskScore) ==
  IF Greater(expectedProfit, 100) /\ Less(riskScore, 5000) THEN "BUY"
  ELSE IF Greater(expectedProfit, 50) /\ Less(riskScore, 7000) THEN "HOLD"
  ELSE IF Less(expectedProfit, -50) THEN "SELL"
  ELSE "WAIT"

\* Snapshots a caller hands to analyzeOpportunity, which is public: progress in
\* 1e-2, priceImpact in 1e-4
AnalyzerDatas ==
  [ currentPrice : {1000}, progress : {-100, 0, 50, 100, 400},
    priceImpact : {-2000, 0, 100, 1000, 2000},
    liquidity : {0, 1, 10, 20, 21, 5000, 10000, 20000, 20001, 40000, 100000} ]

NoAnalyzerOutput ==
  [riskScore |-> << >>, slippage |-> << >>, sniperSlippage |-> << >>,
   recommendation |-> << >>]

AnalyzerInit ==
  /\ input \in [ kind : {"snapshot"}, data : AnalyzerDatas ]
               \cup [ kind : {"recommend"},
                      expectedProfit : {NaN, -1000, -51, -50, -49, 0, 50, 51, 100, 101, 1000},
                      riskScore : {-3000, 0, 4999, 5000, 6999, 7000, 10000} ]
  /\ output = NoAnalyzerOutput
  /\ bot = "FM"
  /\ sniperConfig = DefaultConfig(100)
  /\ isRunning = FALSE
  /\ intervals = 0
  /\ monitoredTokens = {}
  /\ launching = [t \in Tokens |-> 0]
  /\ activeSnipes = << >>
  /\ activeTrades = << >>
  /\ exec = << >>
  /\ emitted = << >>
  /\ snipeOpp = << >>
  /\ totalProfit = 0
  /\ profitUpdated = << >>
  /\ ticks = << >>

ApplyAnalyzerCalculateRiskScore ==
  /\ input.kind = "snapshot"
  /\ output.riskScore = << >>
  /\ output' = [output EXCEPT !.riskScore = << AnalyzerCalculateRiskScore(input.data) >>]
  /\ PureFrame

ApplyAnalyzerCalculateSlippage ==
  /\ input.kind = "snapshot"
  /\ output.slippage = << >>
  /\ output' = [output EXCEPT !.slippage = << AnalyzerCalculateSlippage(input.data) >>]
  /\ PureFrame

\* FourMemeSniperBot.calculateSlippage, the DEX reporting the snapshot's liquidity
ApplyCalculateSlippage ==
  /\ input.kind = "snapshot"
  /\ output.sniperSlippage = << >>
  /\ output' = [output EXCEPT !.sniperSlippage = << CalculateSlippage(input.data.liquidity) >>]
  /\ PureFrame

ApplyGetRecommendation ==
  /\ input.kind = "recommend"
  /\ output.recommendation = << >>
  /\ output' = [output EXCEPT
                  !.recommendation =
                     << GetRecommendation(Absent, input.expectedProfit, input.riskScore) >>]
  /\ PureFrame

AnalyzerNext ==
  \/ ApplyAnalyzerCalculateRiskScore
  \/ ApplyAnalyzerCalculateSlippage
  \/ ApplyCalculateSlippage
  \/ ApplyGetRecommendation

AnalyzerSpec == AnalyzerInit /\ [][AnalyzerNext]_vars

\* 0.3 x progress + 0.4 x max(0, (10000 - liquidity)/10000)
\* + 0.3 x min(priceImpact, 0.1), in 1e-4
WeightedRisk(data) ==
  data.progress * 30
  + (Max(0, 10000 - data.liquidity) * 4) \div 10
  + (Min(data.priceImpact, 1000) * 3) \div 10

\* C26: for every snapshot the analyzer's riskScore is the weighted sum clamped
\* to [0,1]: it is never below 0 and never above 1, negative progress and
\* negative priceImpact included.
C26_RiskScoreClamped ==
  (input.kind = "snapshot" /\ output.riskScore # << >>) =>
    /\ output.riskScore[1] = Max(0, Min(WeightedRisk(input.data), 10000))
    /\ output.riskScore[1] >= 0
    /\ output.riskScore[1] <= 10000

\* s, in ppm, is min(tradeSize / liquidity, 0.05) up to the rounding of the
\* quotient: the cap when the quotient reaches it or the liquidity is 0, else
\* the quotient, rounded down
IsCappedQuotient(s, tradeSize, liquidity) ==
  /\ s <= SlippageCap
  /\ IF liquidity = 0 \/ tradeSize * (1000000 \div SlippageCap) >= liquidity
     THEN s = SlippageCap
     ELSE /\ s * liquidity <= tradeSize * 1000000
          /\ tradeSize * 1000000 < (s + 1) * liquidity

\* C27: the analyzer's slippage is min(1 / liquidity, 0.05) and the sniper's is
\* min(1000 / liquidity, 0.05); neither exceeds 0.05, for every liquidity, 0
\* included.
C27_SlippageCapped ==
  /\ (input.kind = "snapshot" /\ output.slippage # << >>) =>
       IsCappedQuotient(output.slippage[1], AnalyzerTradeAmount, input.data.liquidity)
  /\ (input.kind = "snapshot" /\ output.sniperSlippage # << >>) =>
       IsCappedQuotient(output.sniperSlippage[1], SniperTradeAmount, input.data.liquidity)

\* both computations ran for liquidity 0, and both gave the cap
C27_Witness ==
  /\ input.kind = "snapshot"
  /\ input.data.liquidity = 0
  /\ output.slippage = << SlippageCap >>
  /\ output.sniperSlippage = << SlippageCap >>

\* C28: getRecommendation returns BUY when expectedProfit > 0.1 and riskScore <
\* 0.5; else HOLD when expectedProfit > 0.05 and riskScore < 0.7; else SELL
\* when expectedProfit < -0.05; else WAIT: one of the four for every input, and
\* 0.1, 0.05, -0.05, 0.5 and 0.7 themselves satisfy no comparison.
C28_RecommendationTotal ==
  (input.kind = "recommend" /\ output.recommendation # << >>) =>
    LET r == output.recommendation[1]
        p == input.expectedProfit
        s == input.riskScore
        buy == p # NaN /\ p > 100 /\ s < 5000
        hold == p # NaN /\ p > 50 /\ s < 7000
        sell == p # NaN /\ p < -50
    IN  /\ r \in {"BUY", "HOLD", "SELL", "WAIT"}
        /\ r = "BUY" <=> buy
        /\ r = "HOLD" <=> (~buy /\ hold)
        /\ r = "SELL" <=> (~buy /\ ~hold /\ sell)
        /\ r = "WAIT" <=> (~buy /\ ~hold /\ ~sell)
        /\ p = 100 => r # "BUY"
        /\ p = 50 => r \notin {"BUY", "HOLD"}
        /\ p = -50 => r # "SELL"
        /\ s = 5000 => r # "BUY"
        /\ s = 7000 => r \notin {"BUY", "HOLD"}

\* an expected profit of exactly 0.1 at risk 0 was recommended HOLD, not BUY
C28_Witness ==
  /\ input.kind = "recommend"
  /\ input.expectedProfit = 100
  /\ input.riskScore = 0
  /\ output.recommendation = << "HOLD" >>

\* C29: while FourMemeSniperBot is not running (before start(), and after
\* stop() has returned until start() is called again) no step creates a trade
\* and no step hands a transaction to the wallet.
C29_NothingNewWhileStopped ==
  [][ (bot = "FM" /\ ~isRunning) =>
        /\ ~Creates
        /\ \A i \in DOMAIN exec : exec'[i].submits = exec[i].submits ]_vars

\* C30: whatever sequence of start() and stop() calls is made, the polls and
\* the handlers have been scheduled at most once: there is at most one instance
\* of each periodic task and one handler per event.
C30_AtMostOneInstance ==
  intervals <= 1

\* ------------------------------------------------ launch times (analyzeToken)
\* The tokens the Four.Meme API reports carry a launchTime. input.launched is
\* the set of tokens whose launchTime is not later than Date.now(); at the start
\* every launch lies in the future.
LaunchInit ==
  /\ bot = "FM"
  /\ sniperConfig = DefaultConfig(100)
  /\ isRunning = FALSE
  /\ intervals = 0
  /\ monitoredTokens = {}
  /\ launching = [t \in Tokens |-> 0]
  /\ activeSnipes = << >>
  /\ activeTrades = << >>
  /\ exec = << >>
  /\ emitted = << >>
  /\ snipeOpp = << >>
  /\ input = [kind |-> "clock", launched |-> {}]
  /\ output = NoOutput
  /\ totalProfit = 0
  /\ profitUpdated = << >>
  /\ ticks = << >>

\* Date.now() passes the launchTime of a token
LaunchTimePasses(token) ==
  /\ input.kind = "clock"
  /\ token \notin input.launched
  /\ input' = [input EXCEPT !.launched = @ \cup {token}]
  /\ UNCHANGED << bot, sniperConfig, isRunning, intervals, monitoredTokens, launching,
                  activeSnipes, activeTrades, exec, emitted, snipeOpp, output,
                  totalProfit, profitUpdated, ticks >>

\* analyzeToken: handleTokenLaunch runs at once when timeToLaunch <= 0, and
\* from the setTimeout callback, after timeToLaunch, when timeToLaunch > 0
AnalyzeTokenLaunch(token, answers) ==
  /\ input.kind = "clock"
  /\ token \in input.launched
  /\ HandleTokenLaunch(token, answers)

LaunchNext ==
  \/ Start
  \/ Stop
  \/ StopAllSnipes
  \/ \E token \in Tokens : LaunchTimePasses(token)
  \/ \E token \in Tokens : FourMemeMonitoringTick(token)
  \/ \E token \in Tokens, answers \in LaunchAnswers : AnalyzeTokenLaunch(token, answers)
  \/ \E token \in Tokens, answers \in PollAnswers : BondingCurvePoll(token, answers)
  \/ \E i \in 1..MaxSnipes : GasPriceReturns(i)
  \/ \E i \in 1..MaxSnipes : ProtectReturns(i)
  \/ \E i \in 1..MaxSnipes : ProtectThrows(i)
  \/ \E i \in 1..MaxSnipes : SendReturns(i)
  \/ \E i \in 1..MaxSnipes : SendThrows(i)
  \/ \E i \in 1..MaxSnipes, receipt \in {"ok", "failed"} : WaitReturns(i, receipt)
  \/ \E i \in 1..MaxSnipes : WaitThrows(i)
  \/ \E i \in 1..MaxSnipes : ListenerReturns(i)
  \/ \E i \in 1..MaxSnipes : ListenerThrows(i)
  \/ \E i \in 1..MaxSnipes : CallHangs(i)

LaunchSpec == LaunchInit /\ [][LaunchNext]_vars

\* C31: no step creates a trade, and no step hands a transaction to the wallet,
\* for a token whose launchTime has not passed yet.
C31_NothingBeforeLaunch ==
  [][ /\ Creates => activeSnipes'[Len(activeSnipes')].token \in input.launched
      /\ \A i \in DOMAIN exec :
           exec'[i].submits # exec[i].submits => activeSnipes[i].token \in input.launched
    ]_vars

\* C32: each token address enters analyzeToken at most once. A step enters
\* analyzeToken for a token when it raises launching[token]; every such step
\* also puts the token into monitoredTokens, which never loses a member, so
\* "at most once" is: no step enters analyzeToken for a token that is in
\* monitoredTokens already.
C32_AnalyzedAtMostOnce ==
  [][ \A token \in Tokens :
        (bot = "FM" /\ launching'[token] > launching[token])
          => token \notin monitoredTokens ]_vars

\* C33: over the whole life of a trade whose execution was started, no more
\* than one of the notifications snipeExecuted, snipeFailed, snipeError has
\* been emitted for it, also when a notification listener throws.
C33_OneOutcomeNotification ==
  bot = "FM" => \A i \in DOMAIN emitted : Len(emitted[i]) <= 1

\* --------------------------------- the gas price of a submitted transaction
\* Fee data and congestion on both sides of maxGasPrice (20 gwei): the optimal
\* gas price is 5 gwei (fallback), 10, 15, 20 or 30 gwei
SubmitFeeDatas ==
  { [kind |-> "throws", gasPrice |-> GasPrice(0, 0)],
    [kind |-> "price", gasPrice |-> GasPrice(10, 0)],
    [kind |-> "price", gasPrice |-> GasPrice(20, 0)] }

SubmitCongestions == {500, 1000}

NoGasPrice == GasPrice(-1, 0)

\* mevProtection.protectTransaction: an anti-front-running transformation of
\* the transaction; the gas price the transaction was built with stays
ProtectTransaction(tx) == tx

\* the transaction request executeSnipeTransaction builds
SnipeTransaction(gasPrice) == [gasPrice |-> gasPrice]

SubmitInit ==
  /\ bot = "FM"
  /\ sniperConfig = DefaultConfig(100)
  /\ isRunning = FALSE
  /\ intervals = 0
  /\ monitoredTokens = {}
  /\ launching = [t \in Tokens |-> 0]
  /\ activeSnipes = << >>
  /\ activeTrades = << >>
  /\ exec = << >>
  /\ emitted = << >>
  /\ snipeOpp = << >>
  /\ input = [kind |-> "submit"]
  /\ output = [gasPrice |-> [i \in 1..MaxSnipes |-> NoGasPrice],
               submitted |-> [i \in 1..MaxSnipes |-> NoGasPrice]]
  /\ totalProfit = 0
  /\ profitUpdated = << >>
  /\ ticks = << >>

SubmitFrame == UNCHANGED << bot, sniperConfig, isRunning, intervals, monitoredTokens,
                            launching, activeSnipes, activeTrades, emitted, snipeOpp,
                            input, totalProfit, profitUpdated, ticks >>

\* const gasPrice = await this.gasOptimizer.getOptimalGasPrice()
SubmitGasPriceReturns(i, feeData, congestionLevel) ==
  /\ input.kind = "submit"
  /\ i \in DOMAIN exec
  /\ ~InListener
  /\ exec[i].pc = "gas"
  /\ exec' = [exec EXCEPT ![i].pc = "protect"]
  /\ output' = [output EXCEPT !.gasPrice[i] = GetOptimalGasPrice(feeData, congestionLevel)]
  /\ SubmitFrame

\* protectTransaction returns and the protected transaction goes to
\* wallet.sendTransaction
SubmitProtectReturns(i) ==
  /\ input.kind = "submit"
  /\ i \in DOMAIN exec
  /\ ~InListener
  /\ exec[i].pc = "protect"
  /\ exec' = [exec EXCEPT ![i].pc = "send", ![i].submits = @ + 1]
  /\ output' = [output EXCEPT
                  !.submitted[i] =
                     ProtectTransaction(SnipeTransaction(output.gasPrice[i])).gasPrice]
  /\ SubmitFrame

SubmitNext ==
  \/ Start
  \/ \E token \in Tokens : FourMemeMonitoringTick(token)
  \/ \E token \in Tokens, answers \in PollAnswers : BondingCurvePoll(token, answers)
  \/ \E i \in 1..MaxSnipes, feeData \in SubmitFeeDatas, congestionLevel \in SubmitCongestions :
       SubmitGasPriceReturns(i, feeData, congestionLevel)
  \/ \E i \in 1..MaxSnipes : SubmitProtectReturns(i)
  \/ \E i \in 1..MaxSnipes : ProtectThrows(i)
  \/ \E i \in 1..MaxSnipes : SendReturns(i)
  \/ \E i \in 1..MaxSnipes : SendThrows(i)
  \/ \E i \in 1..MaxSnipes, receipt \in {"ok", "failed"} : WaitReturns(i, receipt)
  \/ \E i \in 1..MaxSnipes : WaitThrows(i)
  \/ \E i \in 1..MaxSnipes : ListenerReturns(i)
  \/ \E i \in 1..MaxSnipes : ListenerThrows(i)

SubmitSpec == SubmitInit /\ [][SubmitNext]_vars

\* C34: the gas price of every transaction handed to the wallet is at most the
\* configured maxGasPrice (in gwei).
C34_GasPriceWithinMaximum ==
  \A i \in DOMAIN exec :
    exec[i].submits > 0 =>
      ~GasGreater(output.submitted[i], GasPrice(sniperConfig.maxGasPrice, 0))

\* ------------------------------------ risk alerts (FourMemeSniperBotMain)
MaxAlerts == 2

RiskLevels == {"LOW", "MEDIUM", "HIGH", "CRITICAL"}

\* input.alerts: the levels of the riskAlert events handled so far
RiskInit ==
  /\ bot = "FM"
  /\ sniperConfig = DefaultConfig(100)
  /\ isRunning = FALSE
  /\ intervals = 0
  /\ monitoredTokens = {}
  /\ launching = [t \in Tokens |-> 0]
  /\ activeSnipes = << >>
  /\ activeTrades = << >>
  /\ exec = << >>
  /\ emitted = << >>
  /\ snipeOpp = << >>
  /\ input = [kind |-> "risk", alerts |-> << >>]
  /\ output = NoOutput
  /\ totalProfit = 0
  /\ profitUpdated = << >>
  /\ ticks = << >>

\* the riskAlert listener: handleRiskAlert(riskData) with riskData.level = level
HandleRiskAlert(level) ==
  /\ input.kind = "risk"
  /\ ~InListener
  /\ Len(input.alerts) < MaxAlerts
  /\ input' = [input EXCEPT !.alerts = Append(@, level)]
  /\ IF level = "HIGH"
     THEN UNCHANGED activeSnipes
     ELSE IF level = "CRITICAL"
     THEN activeSnipes' = StopAll(activeSnipes)
     ELSE UNCHANGED activeSnipes
  /\ UNCHANGED << bot, sniperConfig, isRunning, intervals, monitoredTokens, launching,
                  activeTrades, exec, emitted, snipeOpp, output,
                  totalProfit, profitUpdated, ticks >>

RiskNext ==
  \/ Start
  \/ \E level \in RiskLevels : HandleRiskAlert(level)
  \/ \E token \in Tokens : FourMemeMonitoringTick(token)
  \/ \E token \in Tokens, answers \in PollAnswers : BondingCurvePoll(token, answers)
  \/ \E i \in 1..MaxSnipes : GasPriceReturns(i)
  \/ \E i \in 1..MaxSnipes : ProtectReturns(i)
  \/ \E i \in 1..MaxSnipes : ProtectThrows(i)
  \/ \E i \in 1..MaxSnipes : SendReturns(i)
  \/ \E i \in 1..MaxSnipes : SendThrows(i)
  \/ \E i \in 1..MaxSnipes, receipt \in {"ok", "failed"} : WaitReturns(i, receipt)
  \/ \E i \in 1..MaxSnipes : WaitThrows(i)
  \/ \E i \in 1..MaxSnipes : ListenerReturns(i)
  \/ \E i \in 1..MaxSnipes : ListenerThrows(i)

RiskSpec == RiskInit /\ [][RiskNext]_vars

\* C35: the step that handles a risk alert of level HIGH lowers the maximum
\* position size; the step that handles one of level CRITICAL turns every
\* ACTIVE trade into STOPPED; the step that handles an alert of any other level
\* changes no trade and no configuration value.
C35_RiskAlertEffects ==
  [][ input'.alerts # input.alerts =>
        LET level == input'.alerts[Len(input'.alerts)]
        IN  IF level = "HIGH"
            THEN sniperConfig'.maxPositionSize < sniperConfig.maxPositionSize
            ELSE IF level = "CRITICAL"
            THEN \A i \in DOMAIN activeSnipes :
                   activeSnipes[i].status = "ACTIVE" => activeSnipes'[i].status = "STOPPED"
            ELSE activeSnipes' = activeSnipes /\ sniperConfig' = sniperConfig ]_vars

\* ------------------------------------------------------------ TokenDetector
MaxChecks == 3
MaxOverlap == 2

\* for (blockNumber = currentBlock - 5; ...) and cutoffBlock = currentBlock - 100
BlockLookback == 5
CleanupDistance == 100

\* Block heights provider.getBlockNumber reports: two heights more than
\* CleanupDistance apart, in any order
BlockHeights == {10, 120}

BlockNumbers == UNION { (h - BlockLookback)..h : h \in BlockHeights }

Contracts == {"0xC"}

\* The chain: the contract deployments (tx.to === null with a contractAddress)
\* of each block
DeployedIn(blockNumber) == IF blockNumber = 10 THEN {"0xC"} ELSE {}

IdleCheck == [pc |-> "idle", currentBlock |-> 0, blockNumber |-> 0]

\* cleanupMonitoredBlocks
CleanupMonitoredBlocks(monitoredBlocks, currentBlock) ==
  { b \in monitoredBlocks : ~(b < currentBlock - CleanupDistance) }

\* input: the detector's fields and the checkNewBlocks calls in progress;
\* output: how often each block was handed to analyzeBlock and how often
\* newTokenDetected was emitted for each contract
DetectorInit ==
  /\ input = [ kind |-> "detector", isRunning |-> FALSE, intervals |-> 0,
               monitoredBlocks |-> {}, knownTokens |-> {},
               checks |-> [k \in 1..MaxOverlap |-> IdleCheck], started |-> 0 ]
  /\ output = [ analyzed |-> [b \in BlockNumbers |-> 0],
                detected |-> [c \in Contracts |-> 0] ]
  /\ bot = "FM"
  /\ sniperConfig = DefaultConfig(100)
  /\ isRunning = FALSE
  /\ intervals = 0
  /\ monitoredTokens = {}
  /\ launching = [t \in Tokens |-> 0]
  /\ activeSnipes = << >>
  /\ activeTrades = << >>
  /\ exec = << >>
  /\ emitted = << >>
  /\ snipeOpp = << >>
  /\ totalProfit = 0
  /\ profitUpdated = << >>
  /\ ticks = << >>

\* the bot's own state, which TokenDetector does not touch
DetectorFrame == UNCHANGED << bot, sniperConfig, isRunning, intervals, monitoredTokens,
                              launching, activeSnipes, activeTrades, exec, emitted,
                              snipeOpp, totalProfit, profitUpdated, ticks >>

\* TokenDetector.start
DetectorStart ==
  /\ input.kind = "detector"
  /\ ~input.isRunning
  /\ input' = [input EXCEPT !.isRunning = TRUE, !.intervals = @ + 1]
  /\ UNCHANGED output
  /\ DetectorFrame

\* The loop of checkNewBlocks from blockNumber = from up to its next await:
\* blocks in monitoredBlocks are passed over; the first one that is not is
\* added and handed to analyzeBlock; after the last block the old entries are
\* cleaned up and the call returns
ContinueCheck(k, currentBlock, from, knownTokens, detected, started) ==
  LET todo == { b \in from..currentBlock : b \notin input.monitoredBlocks }
  IN  IF todo = {}
      THEN /\ input' = [input EXCEPT
                          !.knownTokens = knownTokens, !.started = started,
                          !.monitoredBlocks = CleanupMonitoredBlocks(@, currentBlock),
                          !.checks[k] = IdleCheck]
           /\ output' = [output EXCEPT !.detected = detected]
      ELSE LET blockNumber == CHOOSE b \in todo : \A c \in todo : b <= c
           IN  /\ input' = [input EXCEPT
                              !.knownTokens = knownTokens, !.started = started,
                              !.monitoredBlocks = @ \cup {blockNumber},
                              !.checks[k] = [pc |-> "block", currentBlock |-> currentBlock,
                                             blockNumber |-> blockNumber]]
               /\ output' = [output EXCEPT !.detected = detected,
                                           !.analyzed[blockNumber] = @ + 1]

\* A 2-second tick: checkNewBlocks is called and provider.getBlockNumber
\* returns currentBlock (a rejected call ends the tick in the catch)
CheckNewBlocks(k, currentBlock) ==
  /\ input.kind = "detector"
  /\ input.intervals > 0
  /\ input.started < MaxChecks
  /\ input.checks[k].pc = "idle"
  /\ ContinueCheck(k, currentBlock, currentBlock - BlockLookback,
                   input.knownTokens, output.detected, input.started + 1)
  /\ DetectorFrame

\* analyzeBlock: provider.getBlock settles. found: the block with its
\* transactions; not found: null or a rejection, which analyzeBlock catches.
\* A deployment of a contract in knownTokens is skipped; for one that is not,
\* isTokenContract and extractTokenData are awaited
BlockReturns(k, found) ==
  /\ input.kind = "detector"
  /\ input.checks[k].pc = "block"
  /\ LET check == input.checks[k]
         fresh == IF found THEN DeployedIn(check.blockNumber) \ input.knownTokens ELSE {}
     IN  IF fresh = {}
         THEN ContinueCheck(k, check.currentBlock, check.blockNumber + 1,
                            input.knownTokens, output.detected, input.started)
         ELSE /\ input' = [input EXCEPT !.checks[k].pc = "token"]
              /\ UNCHANGED output
  /\ DetectorFrame

\* analyzeContractDeployment after isTokenContract and extractTokenData:
\* a token with its data is added to knownTokens and newTokenDetected is
\* emitted once checkFourMemeToken has answered (it catches its own failures)
TokenDataReturns(k, isToken) ==
  /\ input.kind = "detector"
  /\ input.checks[k].pc = "token"
  /\ LET check == input.checks[k]
         contract == CHOOSE c \in DeployedIn(check.blockNumber) : TRUE
     IN  IF isToken
         THEN ContinueCheck(k, check.currentBlock, check.blockNumber + 1,
                            input.knownTokens \cup {contract},
                            [output.detected EXCEPT ![contract] = @ + 1], input.started)
         ELSE ContinueCheck(k, check.currentBlock, check.blockNumber + 1,
                            input.knownTokens, output.detected, input.started)
  /\ DetectorFrame

DetectorNext ==
  \/ DetectorStart
  \/ \E k \in 1..MaxOverlap, currentBlock \in BlockHeights : CheckNewBlocks(k, currentBlock)
  \/ \E k \in 1..MaxOverlap, found \in BOOLEAN : BlockReturns(k, found)
  \/ \E k \in 1..MaxOverlap, isToken \in BOOLEAN : TokenDataReturns(k, isToken)

DetectorSpec == DetectorInit /\ [][DetectorNext]_vars

\* C36: no block number has been handed to analyzeBlock more than once and
\* newTokenDetected has been emitted at most once for each contract address.
C36_BlocksAndTokensOnce ==
  input.kind = "detector" =>
    /\ \A b \in BlockNumbers : output.analyzed[b] <= 1
    /\ \A c \in Contracts : output.detected[c] <= 1

\* -------------------------------------------------------- MigrationDetector
MaxRounds == 3

\* fromBlock = Math.max(currentBlock - 100, 0)
EventWindow == 100

\* Heights provider.getBlockNumber reports to monitorMigrationEvents
MigrationHeights == {100, 150, 201, 251}

\* The migration events the monitored contract has logged on the chain, by
\* the number of their block
MigrationEvents == {100, 150}

IdleRound == [pc |-> "idle", fromBlock |-> 0, toBlock |-> 0, events |-> {}]

\* input: isRunning and the monitoring round in progress; output: how often
\* migrationDetected was emitted and how often storeMigrationEvent stored,
\* for each event of the chain
MigrationInit ==
  /\ input = [ kind |-> "migration", isRunning |-> FALSE, round |-> IdleRound, rounds |-> 0 ]
  /\ output = [ detected |-> [e \in MigrationEvents |-> 0],
                stored |-> [e \in MigrationEvents |-> 0] ]
  /\ bot = "FM"
  /\ sniperConfig = DefaultConfig(100)
  /\ isRunning = FALSE
  /\ intervals = 0
  /\ monitoredTokens = {}
  /\ launching = [t \in Tokens |-> 0]
  /\ activeSnipes = << >>
  /\ activeTrades = << >>
  /\ exec = << >>
  /\ emitted = << >>
  /\ snipeOpp = << >>
  /\ totalProfit = 0
  /\ profitUpdated = << >>
  /\ ticks = << >>

\* MigrationDetector.start: startEventMonitoring calls monitorMigrationEvents,
\* which runs up to its await of provider.getBlockNumber
MigrationStart ==
  /\ input.kind = "migration"
  /\ ~input.isRunning
  /\ input' = [input EXCEPT !.isRunning = TRUE, !.round.pc = "height", !.rounds = 1]
  /\ UNCHANGED output
  /\ DetectorFrame

\* provider.getBlockNumber returns: the window is the last EventWindow blocks
BlockNumberReturns(currentBlock) ==
  /\ input.kind = "migration"
  /\ input.round.pc = "height"
  /\ input' = [input EXCEPT
                 !.round = [pc |-> "query",
                            fromBlock |-> Max(currentBlock - EventWindow, 0),
                            toBlock |-> currentBlock, events |-> {}]]
  /\ UNCHANGED output
  /\ DetectorFrame

\* provider.getBlockNumber rejects: the catch re-arms the timer (10 s)
BlockNumberThrows ==
  /\ input.kind = "migration"
  /\ input.round.pc = "height"
  /\ input' = [input EXCEPT !.round = [IdleRound EXCEPT !.pc = "timer"]]
  /\ UNCHANGED output
  /\ DetectorFrame

\* checkContractEvents: contract.queryFilter(filter, fromBlock, toBlock)
\* returns the events of the window, or rejects (caught, no event)
QueryFilterReturns(ok) ==
  /\ input.kind = "migration"
  /\ input.round.pc = "query"
  /\ LET events == IF ok
                   THEN { e \in MigrationEvents :
                            input.round.fromBlock <= e /\ e <= input.round.toBlock }
                   ELSE {}
     IN  input' = [input EXCEPT
                     !.round = IF events = {} THEN [IdleRound EXCEPT !.pc = "timer"]
                               ELSE [@ EXCEPT !.pc = "process", !.events = events]]
  /\ UNCHANGED output
  /\ DetectorFrame

\* processMigrationEvent for the next event of the query's result:
\* migrationDetected is emitted when analyzeMigrationOpportunity returns an
\* opportunity, and the event is stored unless storeMigrationEvent rejects
ProcessMigrationEvent(hasOpportunity, isStored) ==
  /\ input.kind = "migration"
  /\ input.round.pc = "process"
  /\ LET event == CHOOSE e \in input.round.events : \A f \in input.round.events : e <= f
         rest == input.round.events \ {event}
     IN  /\ output' = [output EXCEPT
                         !.detected[event] = IF hasOpportunity THEN @ + 1 ELSE @,
                         !.stored[event] = IF isStored THEN @ + 1 ELSE @]
         /\ input' = [input EXCEPT
                        !.round = IF rest = {} THEN [IdleRound EXCEPT !.pc = "timer"]
                                  ELSE [@ EXCEPT !.events = rest]]
  /\ DetectorFrame

\* the setTimeout callback: the next monitorMigrationEvents round
MonitorMigrationEvents ==
  /\ input.kind = "migration"
  /\ input.round.pc = "timer"
  /\ input.rounds < MaxRounds
  /\ input' = [input EXCEPT !.round.pc = "height", !.rounds = @ + 1]
  /\ UNCHANGED output
  /\ DetectorFrame

MigrationNext ==
  \/ MigrationStart
  \/ \E currentBlock \in MigrationHeights : BlockNumberReturns(currentBlock)
  \/ BlockNumberThrows
  \/ \E ok \in BOOLEAN : QueryFilterReturns(ok)
  \/ \E hasOpportunity \in BOOLEAN, isStored \in BOOLEAN :
       ProcessMigrationEvent(hasOpportunity, isStored)
  \/ MonitorMigrationEvents

MigrationSpec == MigrationInit /\ [][MigrationNext]_vars

\* C37: for each on-chain migration event, migrationDetected has been emitted
\* at most once and the event has been stored at most once.
C37_MigrationEventOnce ==
  input.kind = "migration" =>
    \A e \in MigrationEvents : output.detected[e] <= 1 /\ output.stored[e] <= 1

\* ------------------------------------------ GasOptimizer: gas price history
MaxCalls == 102
MaxPending == 2

\* private maxHistorySize: number = 100
MaxHistorySize == 100

\* Number(feeData.gasPrice || BigInt(0)) / 1e9: the price as a number of gwei,
\* written here with its whole gwei and its billionths
GweiSample(feeData) ==
  IF feeData.kind = "noGasPrice" THEN GasPrice(0, 0) ELSE feeData.gasPrice

\* mutant: the oldest samples are kept
PushSample_KeepsOldest(history, sample) ==
  LET pushed == Append(history, sample)
  IN  IF Len(pushed) > MaxHistorySize THEN SubSeq(pushed, 1, MaxHistorySize) ELSE pushed

\* gasPriceHistory.push(gasPrice), then slice(-maxHistorySize) when longer
PushSample(history, sample) ==
  LET pushed == Append(history, sample)
  IN  IF Len(pushed) > MaxHistorySize
      THEN SubSeq(pushed, Len(pushed) - MaxHistorySize + 1, Len(pushed))
      ELSE pushed

\* input: gasPriceHistory, the updateGasPriceHistory calls awaiting getFeeData
\* and the calls made so far; output.read: the fee-data answers received so far
HistoryInit ==
  /\ input = [ kind |-> "history", gasPriceHistory |-> << >>, pending |-> 0, calls |-> 0 ]
  /\ output = [ read |-> 0 ]
  /\ bot = "FM"
  /\ sniperConfig = DefaultConfig(100)
  /\ isRunning = FALSE
  /\ intervals = 0
  /\ monitoredTokens = {}
  /\ launching = [t \in Tokens |-> 0]
  /\ activeSnipes = << >>
  /\ activeTrades = << >>
  /\ exec = << >>
  /\ emitted = << >>
  /\ snipeOpp = << >>
  /\ totalProfit = 0
  /\ profitUpdated = << >>
  /\ ticks = << >>

\* initialize() or refreshGasPriceHistory() is called: both only await
\* updateGasPriceHistory, which runs up to its await of provider.getFeeData
UpdateGasPriceHistory ==
  /\ input.kind = "history"
  /\ input.calls < MaxCalls
  /\ input.pending < MaxPending
  /\ input' = [input EXCEPT !.pending = @ + 1, !.calls = @ + 1]
  /\ UNCHANGED output
  /\ DetectorFrame

\* provider.getFeeData answers; the n-th answer reports n gwei
FeeDataReturns ==
  /\ input.kind = "history"
  /\ input.pending > 0
  /\ LET feeData == [kind |-> "price", gasPrice |-> GasPrice(output.read + 1, 0)]
     IN  input' = [input EXCEPT
                     !.pending = @ - 1,
                     !.gasPriceHistory = PushSample(@, GweiSample(feeData))]
  /\ output' = [output EXCEPT !.read = @ + 1]
  /\ DetectorFrame

\* provider.getFeeData rejects: the catch logs
FeeDataThrows ==
  /\ input.kind = "history"
  /\ input.pending > 0
  /\ input' = [input EXCEPT !.pending = @ - 1]
  /\ UNCHANGED output
  /\ DetectorFrame

HistoryNext ==
  \/ UpdateGasPriceHistory
  \/ FeeDataReturns
  \/ FeeDataThrows

HistorySpec == HistoryInit /\ [][HistoryNext]_vars

\* C38: the gas price history holds the samples of the most recent answers, at
\* most maxHistorySize of them, oldest first, and nothing else: with n answers
\* received so far it is the samples of answers n - len + 1 .. n, where len is
\* the smaller of n and maxHistorySize. A rejected query adds nothing.
C38_HistoryIsRecentSamples ==
  input.kind = "history" =>
    LET history == input.gasPriceHistory
        n == output.read
    IN  /\ Len(history) <= MaxHistorySize
        /\ Len(history) = Min(n, MaxHistorySize)
        /\ \A j \in 1..Len(history) : history[j] = GasPrice(n - Len(history) + j, 0)

\* more answers than the history holds, and a rejected query among the calls
C38_Witness ==
  /\ input.kind = "history"
  /\ output.read > MaxHistorySize
  /\ Len(input.gasPriceHistory) = MaxHistorySize
  /\ input.calls > output.read + input.pending

\* --------------------------------------------------------------- FourMemeAPI
MaxConnectionChecks == 4
MaxApiCalls == 2

\* input: isInitialized and the initialize / refreshConnection calls awaiting
\* testConnection; output.checks: the results of the health checks that have
\* completed, oldest first
ApiInit ==
  /\ input = [ kind |-> "api", isInitialized |-> FALSE,
               calls |-> [k \in 1..MaxApiCalls |-> "idle"], started |-> 0 ]
  /\ output = [ checks |-> << >> ]
  /\ bot = "FM"
  /\ sniperConfig = DefaultConfig(100)
  /\ isRunning = FALSE
  /\ intervals = 0
  /\ monitoredTokens = {}
  /\ launching = [t \in Tokens |-> 0]
  /\ activeSnipes = << >>
  /\ activeTrades = << >>
  /\ exec = << >>
  /\ emitted = << >>
  /\ snipeOpp = << >>
  /\ totalProfit = 0
  /\ profitUpdated = << >>
  /\ ticks = << >>

\* initialize() up to its await of testConnection
ApiInitialize(k) ==
  /\ input.kind = "api"
  /\ input.started < MaxConnectionChecks
  /\ input.calls[k] = "idle"
  /\ input' = [input EXCEPT !.calls[k] = "initialize", !.started = @ + 1]
  /\ UNCHANGED output
  /\ DetectorFrame

\* refreshConnection() up to its await of testConnection
RefreshConnection(k) ==
  /\ input.kind = "api"
  /\ input.started < MaxConnectionChecks
  /\ input.calls[k] = "idle"
  /\ input' = [input EXCEPT !.calls[k] = "refreshConnection", !.started = @ + 1]
  /\ UNCHANGED output
  /\ DetectorFrame

\* testConnection returns (status 200): initialize sets isInitialized,
\* refreshConnection logs
TestConnectionReturns(k) ==
  /\ input.kind = "api"
  /\ input.calls[k] # "idle"
  /\ input' = [input EXCEPT
                 !.calls[k] = "idle",
                 !.isInitialized = IF input.calls[k] = "initialize" THEN TRUE ELSE @]
  /\ output' = [output EXCEPT !.checks = Append(@, "ok")]
  /\ DetectorFrame

\* testConnection throws (no answer, or a status other than 200): initialize
\* rethrows, refreshConnection clears isInitialized
TestConnectionThrows(k) ==
  /\ input.kind = "api"
  /\ input.calls[k] # "idle"
  /\ input' = [input EXCEPT
                 !.calls[k] = "idle",
                 !.isInitialized = IF input.calls[k] = "refreshConnection" THEN FALSE ELSE @]
  /\ output' = [output EXCEPT !.checks = Append(@, "failed")]
  /\ DetectorFrame

\* isConnected()
IsConnected == input.isInitialized

ApiNext ==
  \/ \E k \in 1..MaxApiCalls : ApiInitialize(k)
  \/ \E k \in 1..MaxApiCalls : RefreshConnection(k)
  \/ \E k \in 1..MaxApiCalls : TestConnectionReturns(k)
  \/ \E k \in 1..MaxApiCalls : TestConnectionThrows(k)

ApiSpec == ApiInit /\ [][ApiNext]_vars

\* C39: once a health check has completed, isConnected() is true exactly when
\* the most recent health check succeeded.
C39_ConnectedIffLastCheckSucceeded ==
  (input.kind = "api" /\ output.checks # << >>) =>
    (IsConnected <=> output.checks[Len(output.checks)] = "ok")

====
